---- MODULE Spec2Model ----
(***************************************************************************)
(* Reminder service: the reminder store (crud.py), the owner-facing        *)
(* update/delete operations and the background worker that polls for due   *)
(* reminders and triggers outgoing calls (background_worker.py).           *)
(*                                                                         *)
(* Strings that the code slices (phone numbers) are sequences of           *)
(* one-character strings.  Instants are integers on one UTC time line.     *)
(* A context (JSON dict) is a function from a finite set of keys.          *)
(***************************************************************************)
EXTENDS Integers, Sequences, FiniteSets, TLC

(* ---------------------------- bounds ----------------------------------- *)

\* the clock runs from 0 to MaxTime
MaxTime == 1

\* number of owner requests (create / update / delete) in one behaviour
MaxOwnerOps == 1

\* settings.WORKER_CHECK_INTERVAL: the 1-second sleeps of one inter-tick sleep
WORKER_CHECK_INTERVAL == 2

\* the default of the limit parameter of get_reminders_by_user, scaled to the
\* number of reminders
DefaultLimit == 1

(* ------------------------- program constants --------------------------- *)

max_retries == 3

(* ------------------------------ values --------------------------------- *)

Ids == {"r1", "r2"}

Digits == {"0", "1", "2", "3", "4", "5", "6", "7", "8", "9"}

\* a NULL destination_mobile column
NullDestination == <<"NULL">>

\* optional values of an updates dict: None, or a value
None == <<>>
Some(v) == <<v>>

\* the user_mobile of the owner of each reminder
OwnerOf(id) == <<"+", "9", "1", "9", "8", "7", "6", "5", "4", "3", "2", "1", "0">>

DestPlus91 == <<"+", "9", "1", "9", "8", "7", "6", "5", "4", "3", "2", "1", "0">>
DestShort == <<"9", "8", "7", "6", "5">>

Destinations == {DestPlus91, DestShort}

PENDING == "pending"
COMPLETED == "completed"
CANCELLED == "cancelled"
StatusEnum == {PENDING, COMPLETED, CANCELLED}

\* a row that is not in the reminders table
NoRow == [absent |-> TRUE]

\* the keys the worker writes into a reminder's context
ReservedKeys == {"call_initiated", "call_id", "call_agent_number", "call_timestamp",
                 "call_retry_count", "call_failed", "call_failed_timestamp",
                 "call_failed_reason"}

WorkerKeys == ReservedKeys \cup {"call_destination"}

EmptyContext == [k \in {} |-> TRUE]

\* context dicts a caller supplies: free-form metadata
CallerContexts == {EmptyContext, [note |-> "n1"]}

\* JSON body of a 200 response of the call API
ApiResponses == {[call_id |-> "c1", agent_number |-> "a1"]}

\* what one POST to the call API can end in
ApiFailures == {"status_not_200", "timeout", "request_error", "exception"}

\* the worker processes of a deployment that runs two of them
Instances == {"w1", "w2"}

\* a worker process that is not running
NotRunning ==
    [pc |-> "stopped", eligible_reminders |-> <<>>, context |-> EmptyContext,
     attempt |-> 1, call_response |-> None, expired |-> FALSE]

NoFleet == [w \in Instances |-> NotRunning]

NoDispatch == [w \in Instances |-> [id \in Ids |-> 0]]

\* no request to the reminder store yet
NoCall == [op |-> "none"]

\* how one POST to the call API ends: status 200 with a JSON body, or a failure
Answered(response) == [kind |-> "status_200", body |-> Some(response)]
Failed(failure) == [kind |-> failure, body |-> None]
Outcomes == {Answered(r) : r \in ApiResponses} \cup {Failed(f) : f \in ApiFailures}

(* ----------------------------- state ----------------------------------- *)

VARIABLES
    store,               \* the reminders table: id -> row or NoRow
    now,                 \* datetime.now(timezone.utc)
    pc,                  \* where the worker is
    eligible_reminders,  \* process_due_reminders: candidates not yet finished
    context,             \* process_due_reminders: the context dict of the burst
    attempt,             \* process_due_reminders: the attempt number
    call_response,       \* process_due_reminders: result of the last attempt
    burst,               \* what the current burst did so far: attempts and sleeps
    expired,             \* the session has committed: the candidates still to come are expired
    error,               \* the exception process_due_reminders has caught, "" if none
    shutdown_requested,  \* the global flag signal_handler sets
    WORKER_ENABLED,      \* settings.WORKER_ENABLED
    remaining,           \* worker_loop: 1-second sleeps left of the inter-tick sleep
    api_requests,        \* payloads POSTed to the call API
    owner_ops,           \* owner requests served so far
    rearmed,             \* reminders whose context a reschedule cleared, not selected since
    dial,                \* one call of initiate_outgoing_call on its own
    instances,           \* worker processes run side by side: the locals of each
    dispatched,          \* 200 responses each of these processes got, per reminder
    api_call             \* the last request to the reminder store and what it returned

workerVars == <<pc, eligible_reminders, context, attempt, call_response, burst,
                expired, error>>

loopVars == <<shutdown_requested, WORKER_ENABLED, remaining>>

fleetVars == <<instances, dispatched>>

vars == <<store, now, workerVars, loopVars, api_requests, owner_ops, rearmed, dial, fleetVars, api_call>>

(* --------------------------- dict helpers ------------------------------ *)

\* dict.get(key, default)
Get(d, key, default) == IF key \in DOMAIN d THEN d[key] ELSE default

\* d with the entries of upd written over it
Merge(d, upd) == upd @@ d

(* ------------------------------ crud.py -------------------------------- *)

\* the lookup by id alone
get_reminder_AnyOwner(db, reminder_id, user_mobile) == db[reminder_id]

\* get_reminder: the row with that id and owner, or NoRow
get_reminder(db, reminder_id, user_mobile) ==
    IF db[reminder_id] # NoRow /\ db[reminder_id].user_mobile = user_mobile
    THEN db[reminder_id]
    ELSE NoRow

\* the loop when a null value blanks the field instead of being skipped
ApplyUpdates_NullBlanks(reminder, updates) ==
    [f \in DOMAIN reminder |->
        IF f \in DOMAIN updates
        THEN IF updates[f] = None THEN "" ELSE updates[f][1]
        ELSE reminder[f]]

\* the row after the "for key, value in updates.items()" loop
ApplyUpdates(reminder, updates) ==
    [f \in DOMAIN reminder |->
        IF f \in DOMAIN updates /\ updates[f] # None
        THEN updates[f][1]
        ELSE reminder[f]]

\* any new due_datetime clears the context
ClearsContext_AnyDue(reminder, updates, t) ==
    /\ "due_datetime" \in DOMAIN updates
    /\ updates["due_datetime"] # None

\* "rescheduled to future time and it's different from original"
ClearsContext(reminder, updates, t) ==
    LET original_due_datetime == reminder.due_datetime
        new_due_datetime == ApplyUpdates(reminder, updates).due_datetime
    IN  /\ "due_datetime" \in DOMAIN updates
        /\ updates["due_datetime"] # None
        /\ new_due_datetime > t
        /\ new_due_datetime # original_due_datetime

\* the row update_reminder commits for an existing reminder
UpdatedRow(reminder, updates, t) ==
    LET row == IF ClearsContext(reminder, updates, t)
               THEN [ApplyUpdates(reminder, updates) EXCEPT !.context = EmptyContext]
               ELSE ApplyUpdates(reminder, updates)
    IN  IF "updated_at" \in DOMAIN row
        THEN [row EXCEPT !.updated_at = t]
        ELSE row

\* update_reminder: the table afterwards (unchanged when the reminder is not found)
update_reminder(db, reminder_id, user_mobile, updates, t) ==
    LET reminder == get_reminder(db, reminder_id, user_mobile)
    IN  IF reminder = NoRow
        THEN db
        ELSE [db EXCEPT ![reminder_id] = UpdatedRow(reminder, updates, t)]

\* the table after a delete that removes every reminder of the user
delete_reminder_AllOfUser(db, reminder_id, user_mobile) ==
    IF get_reminder(db, reminder_id, user_mobile) = NoRow
    THEN db
    ELSE [id \in Ids |->
            IF db[id] # NoRow /\ db[id].user_mobile = user_mobile THEN NoRow ELSE db[id]]

\* delete_reminder: the table afterwards
delete_reminder(db, reminder_id, user_mobile) ==
    IF get_reminder(db, reminder_id, user_mobile) = NoRow
    THEN db
    ELSE [db EXCEPT ![reminder_id] = NoRow]

\* the SQL filter with "due_datetime < now"
AllDue_StrictlyBefore(db, t) ==
    {id \in Ids : /\ db[id] # NoRow
                  /\ db[id].status = PENDING
                  /\ db[id].due_datetime < t
                  /\ db[id].destination_mobile # NullDestination}

\* the SQL filter of get_due_reminders_for_calls: ids of the rows in all_due
AllDue(db, t) ==
    {id \in Ids : /\ db[id] # NoRow
                  /\ db[id].status = PENDING
                  /\ db[id].due_datetime <= t
                  /\ db[id].destination_mobile # NullDestination}

\* the loop without the call_failed test
RECURSIVE FilterProcessed_NoFailedTest(_)
FilterProcessed_NoFailedTest(all_due) ==
    IF all_due = <<>>
    THEN <<>>
    ELSE LET reminder == Head(all_due)
         IN  IF Get(reminder.context, "call_initiated", FALSE)
             THEN FilterProcessed_NoFailedTest(Tail(all_due))
             ELSE <<reminder>> \o FilterProcessed_NoFailedTest(Tail(all_due))

\* the loop without the call_initiated test
RECURSIVE FilterProcessed_NoInitiatedTest(_)
FilterProcessed_NoInitiatedTest(all_due) ==
    IF all_due = <<>>
    THEN <<>>
    ELSE LET reminder == Head(all_due)
         IN  IF Get(reminder.context, "call_failed", FALSE)
             THEN FilterProcessed_NoInitiatedTest(Tail(all_due))
             ELSE <<reminder>> \o FilterProcessed_NoInitiatedTest(Tail(all_due))

\* the loop of get_due_reminders_for_calls over the rows of all_due
RECURSIVE FilterProcessed(_)
FilterProcessed(all_due) ==
    IF all_due = <<>>
    THEN <<>>
    ELSE LET reminder == Head(all_due)
             ctx == reminder.context
         IN  IF Get(ctx, "call_initiated", FALSE)
             THEN FilterProcessed(Tail(all_due))
             ELSE IF Get(ctx, "call_failed", FALSE)
                  THEN FilterProcessed(Tail(all_due))
                  ELSE <<reminder>> \o FilterProcessed(Tail(all_due))

\* the orders in which a query without ORDER BY can return a set of rows
Orderings(S) ==
    {s \in [1..Cardinality(S) -> S] : \A i, j \in 1..Cardinality(S) : s[i] = s[j] => i = j}

\* the object the worker holds for a selected row
Loaded(db, id) ==
    [id |-> id,
     user_mobile |-> db[id].user_mobile,
     destination_mobile |-> db[id].destination_mobile,
     due_datetime |-> db[id].due_datetime,
     context |-> db[id].context]

\* get_due_reminders_for_calls, with the rows of all_due in the order `order`
get_due_reminders_for_calls(db, t, order) ==
    FilterProcessed([i \in 1..Len(order) |-> Loaded(db, order[i])])

(* ------------------------ background_worker.py ------------------------- *)

StartsWith(s, prefix) ==
    Len(s) >= Len(prefix) /\ SubSeq(s, 1, Len(prefix)) = prefix

\* s[n:]
DropPrefix(s, n) == SubSeq(s, n + 1, Len(s))

\* str.isdigit
IsDigit(s) == Len(s) > 0 /\ \A i \in 1..Len(s) : s[i] \in Digits

\* initiate_outgoing_call: the destination after the country-code stripping
StripCountryCode(destination) ==
    IF StartsWith(destination, <<"+", "9", "1">>)
    THEN DropPrefix(destination, 3)
    ELSE IF StartsWith(destination, <<"9", "1">>) /\ Len(destination) = 12
         THEN DropPrefix(destination, 2)
         ELSE IF StartsWith(destination, <<"+">>)
              THEN DropPrefix(destination, 1)
              ELSE destination

\* the test without the length
ValidDestination_DigitsOnly(destination) == IsDigit(destination)

\* initiate_outgoing_call: the "exactly 10 digits" test
ValidDestination(destination) ==
    Len(destination) = 10 /\ IsDigit(destination)

\* initiate_outgoing_call: the JSON payload
Payload(reminder) ==
    [destination_number |-> StripCountryCode(reminder.destination_mobile),
     custom_identifier |-> <<"reminder_", reminder.id>>]

\* the success context with the stored retry count instead of the attempt number
SuccessContext_StaleCount(ctx, reminder, response, n, t) ==
    Merge(ctx, [call_initiated |-> TRUE,
                call_id |-> response.call_id,
                call_timestamp |-> t,
                call_destination |-> reminder.destination_mobile,
                call_agent_number |-> response.agent_number,
                call_retry_count |-> Get(ctx, "call_retry_count", 0)])

\* the context written on a successful attempt
SuccessContext(ctx, reminder, response, n, t) ==
    Merge(ctx, [call_initiated |-> TRUE,
                call_id |-> response.call_id,
                call_timestamp |-> t,
                call_destination |-> reminder.destination_mobile,
                call_agent_number |-> response.agent_number,
                call_retry_count |-> n])

\* a fixed delay instead of the exponential one
BackoffDelay_Fixed(n) == 2

\* delay = 2 ** attempt
BackoffDelay(n) == 2 ^ n

\* the failure context with the retry count read at the start of the burst
FailureContext_KeepsCount(ctx, t) ==
    Merge(ctx, [call_failed |-> TRUE,
                call_retry_count |-> Get(ctx, "call_retry_count", 0),
                call_failed_timestamp |-> t,
                call_failed_reason |-> "Max retries exceeded"])

\* the context written when all retries are exhausted
FailureContext(ctx, t) ==
    Merge(ctx, [call_failed |-> TRUE,
                call_retry_count |-> max_retries,
                call_failed_timestamp |-> t,
                call_failed_reason |-> "Max retries exceeded"])

\* process_due_reminders has returned: worker_loop goes to its inter-tick sleep,
\* "for _ in range(settings.WORKER_CHECK_INTERVAL)": the first
\* "if shutdown_requested: break", then the first "await asyncio.sleep(1)"
EnterInterval ==
    /\ remaining' = WORKER_CHECK_INTERVAL
    /\ pc' = IF WORKER_CHECK_INTERVAL > 0 /\ ~shutdown_requested
             THEN "sub_sleep"
             ELSE "loop"

\* the burst takes up the count of attempts where the stored context left it
NextReminder_ResumesCount(rest, db, exp) ==
    /\ attempt' = IF rest # <<>> /\ db[Head(rest).id] # NoRow
                  THEN Get(db[Head(rest).id].context, "call_retry_count", 0) + 1
                  ELSE 1
    /\ call_response' = None
    /\ burst' = <<>>
    /\ UNCHANGED <<shutdown_requested, WORKER_ENABLED>>
    /\ IF rest = <<>>
       THEN /\ EnterInterval
            /\ eligible_reminders' = <<>>
            /\ context' = EmptyContext
            /\ error' = ""
            /\ expired' = FALSE
       ELSE LET reminder == IF exp THEN Loaded(db, Head(rest).id) ELSE Head(rest)
            IN  /\ pc' = "attempt"
                /\ expired' = (exp /\ Tail(rest) # <<>>)
                /\ eligible_reminders' = <<reminder>> \o Tail(rest)
                /\ context' = reminder.context
                /\ error' = ""
                /\ UNCHANGED remaining

\* "for reminder in eligible_reminders" over `rest`, on the table db: leave the
\* loop, or start the burst of the first reminder of `rest`.  Reading reminder.id
\* of an object that a commit of this session has expired loads its row again,
\* and raises ObjectDeletedError when the row is gone.
NextReminder(rest, db, exp) ==
    /\ attempt' = 1
    /\ call_response' = None
    /\ burst' = <<>>
    /\ UNCHANGED <<shutdown_requested, WORKER_ENABLED>>
    /\ IF rest = <<>>
       THEN /\ EnterInterval
            /\ eligible_reminders' = <<>>
            /\ context' = EmptyContext
            /\ error' = ""
            /\ expired' = FALSE
       ELSE IF exp /\ db[Head(rest).id] = NoRow
            THEN /\ pc' = "except"
                 /\ eligible_reminders' = <<>>
                 /\ context' = EmptyContext
                 /\ error' = "ObjectDeletedError"
                 /\ expired' = FALSE
                 /\ UNCHANGED remaining
            ELSE LET reminder == IF exp THEN Loaded(db, Head(rest).id) ELSE Head(rest)
                 IN  /\ pc' = "attempt"
                     /\ expired' = (exp /\ Tail(rest) # <<>>)
                     /\ eligible_reminders' = <<reminder>> \o Tail(rest)
                     /\ context' = reminder.context
                     /\ error' = ""
                     /\ UNCHANGED remaining

\* the ids of a list of reminders
IdsOf(reminders) == {reminders[i].id : i \in 1..Len(reminders)}

\* every variable of process_due_reminders at its value outside a burst
ResetTick ==
    /\ eligible_reminders' = <<>>
    /\ context' = EmptyContext
    /\ attempt' = 1
    /\ call_response' = None
    /\ burst' = <<>>

\* worker_loop enters its loop whatever the setting says
WorkerEnabled_IgnoresSetting ==
    /\ pc = "start"
    /\ pc' = "loop"
    /\ UNCHANGED <<store, now, eligible_reminders, context, attempt, call_response,
                   burst, expired, error, loopVars, api_requests, owner_ops, rearmed,
                   dial, fleetVars, api_call>>

\* worker_loop is entered and the worker is enabled
WorkerEnabled ==
    /\ pc = "start"
    /\ WORKER_ENABLED
    /\ pc' = "loop"
    /\ UNCHANGED <<store, now, eligible_reminders, context, attempt, call_response,
                   burst, expired, error, loopVars, api_requests, owner_ops, rearmed,
                   dial, fleetVars, api_call>>

\* "if not settings.WORKER_ENABLED: return"
WorkerDisabled ==
    /\ pc = "start"
    /\ ~WORKER_ENABLED
    /\ pc' = "returned"
    /\ UNCHANGED <<store, now, eligible_reminders, context, attempt, call_response,
                   burst, expired, error, loopVars, api_requests, owner_ops, rearmed,
                   dial, fleetVars, api_call>>

\* "while not shutdown_requested" lets a tick start with the flag always ignored
MayStartTick_Always == TRUE

\* "while not shutdown_requested": the loop condition
MayStartTick == ~shutdown_requested

\* the loop condition is false and worker_loop stays where it is
Stop_NeverReturns ==
    /\ pc = "loop"
    /\ ~MayStartTick
    /\ UNCHANGED vars

\* the loop condition is false: "Background worker shutting down gracefully",
\* worker_loop returns and its locals are gone
Stop ==
    /\ pc = "loop"
    /\ ~MayStartTick
    /\ pc' = "stopped"
    /\ remaining' = 0
    /\ UNCHANGED <<store, now, eligible_reminders, context, attempt, call_response,
                   burst, expired, error, shutdown_requested, WORKER_ENABLED,
                   api_requests, owner_ops, rearmed, dial, fleetVars, api_call>>

\* process_due_reminders up to the first attempt: the selection
Select ==
    /\ pc = "loop"
    /\ MayStartTick
    /\ \E order \in Orderings(AllDue(store, now)) :
          LET selected == get_due_reminders_for_calls(store, now, order)
          IN  /\ NextReminder(selected, store, FALSE)
              /\ rearmed' = rearmed \ IdsOf(selected)
    /\ UNCHANGED <<store, now, api_requests, owner_ops, dial, fleetVars, api_call>>

\* the exception of the query leaves worker_loop
SelectFails_Crashes ==
    /\ pc = "loop"
    /\ MayStartTick
    /\ pc' = "stopped"
    /\ UNCHANGED <<store, now, eligible_reminders, context, attempt, call_response,
                   burst, expired, error, loopVars, api_requests, owner_ops, rearmed,
                   dial, fleetVars, api_call>>

\* the query of get_due_reminders_for_calls raises (the store is unreachable):
\* process_due_reminders catches it
SelectFails ==
    /\ pc = "loop"
    /\ MayStartTick
    /\ pc' = "except"
    /\ error' = "OperationalError"
    /\ expired' = FALSE
    /\ ResetTick
    /\ UNCHANGED <<store, now, loopVars, api_requests, owner_ops, rearmed, dial, fleetVars, api_call>>

\* database.SessionLocal(), which is outside the try of process_due_reminders,
\* raises: worker_loop catches it and goes to "await asyncio.sleep(5)"
SessionLocalRaises ==
    /\ pc = "loop"
    /\ MayStartTick
    /\ pc' = "pause"
    /\ UNCHANGED <<store, now, eligible_reminders, context, attempt, call_response,
                   burst, expired, error, loopVars, api_requests, owner_ops, rearmed,
                   dial, fleetVars, api_call>>

\* "await asyncio.sleep(5)" is over: back to the loop condition
PauseEnd ==
    /\ pc = "pause"
    /\ pc' = "loop"
    /\ UNCHANGED <<store, now, eligible_reminders, context, attempt, call_response,
                   burst, expired, error, loopVars, api_requests, owner_ops, rearmed,
                   dial, fleetVars, api_call>>

\* the retry loop giving up one attempt early
AfterAttempt_FailsEarly(response, status) ==
    /\ call_response' = response
    /\ burst' = Append(burst, <<status, attempt>>)
    /\ IF response # None
       THEN /\ context' = SuccessContext(context, Head(eligible_reminders),
                                         response[1], attempt, now)
            /\ pc' = "persist"
       ELSE IF attempt < max_retries - 1
            THEN /\ context' = context
                 /\ pc' = "backoff"
            ELSE /\ context' = FailureContext(context, now)
                 /\ pc' = "persist"
    /\ UNCHANGED <<store, now, eligible_reminders, attempt, expired, error, loopVars,
                   owner_ops, rearmed, dial, fleetVars, api_call>>

\* what an attempt that returned `response` (None on failure) does next
AfterAttempt(response, status) ==
    /\ call_response' = response
    /\ burst' = Append(burst, <<status, attempt>>)
    /\ IF response # None
       THEN /\ context' = SuccessContext(context, Head(eligible_reminders),
                                         response[1], attempt, now)
            /\ pc' = "persist"
       ELSE IF attempt < max_retries
            THEN /\ context' = context
                 /\ pc' = "backoff"
            ELSE /\ context' = FailureContext(context, now)
                 /\ pc' = "persist"
    /\ UNCHANGED <<store, now, eligible_reminders, attempt, expired, error, loopVars,
                   owner_ops, rearmed, dial, fleetVars, api_call>>

\* initiate_outgoing_call: what it returns for a reminder when the POST, if one is
\* made, ends in `outcome`: the JSON body of a 200 response, or None for a
\* rejected destination, another status, a timeout, a request error or any
\* other exception
initiate_outgoing_call(reminder, outcome) ==
    IF ~ValidDestination(StripCountryCode(reminder.destination_mobile))
    THEN None
    ELSE IF outcome.kind = "status_200"
         THEN outcome.body
         ELSE IF outcome.kind = "status_not_200"
              THEN None
              ELSE IF outcome.kind = "timeout"
                   THEN None
                   ELSE IF outcome.kind = "request_error"
                        THEN None
                        ELSE None

\* the rejection of the destination raises and ends the tick
AttemptRejected_Raises ==
    /\ pc = "attempt"
    /\ ~ValidDestination(StripCountryCode(Head(eligible_reminders).destination_mobile))
    /\ pc' = "except"
    /\ error' = "ValueError"
    /\ expired' = FALSE
    /\ ResetTick
    /\ UNCHANGED <<store, now, loopVars, api_requests, owner_ops, rearmed, dial,
                   fleetVars, api_call>>

\* initiate_outgoing_call returns None without a request: invalid destination
AttemptRejected ==
    /\ pc = "attempt"
    /\ ~ValidDestination(StripCountryCode(Head(eligible_reminders).destination_mobile))
    /\ \E outcome \in Outcomes :
          AfterAttempt(initiate_outgoing_call(Head(eligible_reminders), outcome), "rejected")
    /\ UNCHANGED api_requests

\* initiate_outgoing_call POSTs and gets status 200
AttemptSucceeds ==
    /\ pc = "attempt"
    /\ ValidDestination(StripCountryCode(Head(eligible_reminders).destination_mobile))
    /\ api_requests' = api_requests \cup {Payload(Head(eligible_reminders))}
    /\ \E response \in ApiResponses :
          AfterAttempt(initiate_outgoing_call(Head(eligible_reminders), Answered(response)),
                       "ok")

\* a failed request whose response body is returned to the burst all the same
AttemptFails_ReturnsBody ==
    /\ pc = "attempt"
    /\ ValidDestination(StripCountryCode(Head(eligible_reminders).destination_mobile))
    /\ api_requests' = api_requests \cup {Payload(Head(eligible_reminders))}
    /\ \E failure \in ApiFailures, response \in ApiResponses :
          AfterAttempt(Some(response), "failed")

\* initiate_outgoing_call POSTs and the request fails
AttemptFails ==
    /\ pc = "attempt"
    /\ ValidDestination(StripCountryCode(Head(eligible_reminders).destination_mobile))
    /\ api_requests' = api_requests \cup {Payload(Head(eligible_reminders))}
    /\ \E failure \in ApiFailures :
          AfterAttempt(initiate_outgoing_call(Head(eligible_reminders), Failed(failure)),
                       "failed")

\* the backoff wait hands over to the next candidate, whose burst starts while
\* this one is not over
Backoff_NextCandidate ==
    /\ pc = "backoff"
    /\ eligible_reminders' = Tail(eligible_reminders) \o <<Head(eligible_reminders)>>
    /\ context' = Head(eligible_reminders').context
    /\ burst' = <<>>
    /\ attempt' = 1
    /\ pc' = "attempt"
    /\ UNCHANGED <<store, now, call_response, expired, error, loopVars, api_requests,
                   owner_ops, rearmed, dial, fleetVars, api_call>>

\* the backoff wait ends with a look at the flag, and the tick with it when set
Backoff_ObservesShutdown ==
    /\ pc = "backoff"
    /\ IF shutdown_requested
       THEN /\ pc' = "loop"
            /\ ResetTick
            /\ UNCHANGED <<expired, error, loopVars>>
       ELSE /\ burst' = Append(burst, <<"sleep", BackoffDelay(attempt)>>)
            /\ attempt' = attempt + 1
            /\ pc' = "attempt"
            /\ UNCHANGED <<eligible_reminders, context, call_response, expired,
                           error, loopVars>>
    /\ UNCHANGED <<store, now, api_requests, owner_ops, rearmed, dial, fleetVars, api_call>>

\* the backoff wait ends with the reminder read again from the store
Backoff_Rereads ==
    /\ pc = "backoff"
    /\ burst' = Append(burst, <<"sleep", BackoffDelay(attempt)>>)
    /\ attempt' = attempt + 1
    /\ pc' = "attempt"
    /\ eligible_reminders' =
          IF store[Head(eligible_reminders).id] = NoRow
          THEN eligible_reminders
          ELSE <<Loaded(store, Head(eligible_reminders).id)>> \o Tail(eligible_reminders)
    /\ UNCHANGED <<store, now, context, call_response, expired,
                   error, loopVars, api_requests, owner_ops, rearmed, dial, fleetVars, api_call>>

\* await asyncio.sleep(delay), then the next attempt
Backoff ==
    /\ pc = "backoff"
    /\ burst' = Append(burst, <<"sleep", BackoffDelay(attempt)>>)
    /\ attempt' = attempt + 1
    /\ pc' = "attempt"
    /\ UNCHANGED <<store, now, eligible_reminders, context, call_response, expired,
                   error, loopVars, api_requests, owner_ops, rearmed, dial, fleetVars, api_call>>

\* the burst ends without its outcome being written to the store
Persist_WritesNothing ==
    /\ pc = "persist"
    /\ NextReminder(Tail(eligible_reminders), store, expired)
    /\ UNCHANGED <<store, now, api_requests, owner_ops, rearmed, dial, fleetVars, api_call>>

\* crud.update_reminder(db, reminder.id, reminder.user_mobile, {'context': context}):
\* when it finds the row it commits, which expires the other objects of the
\* session; then the next reminder of the tick
Persist ==
    /\ pc = "persist"
    /\ LET reminder == Head(eligible_reminders)
           found == get_reminder(store, reminder.id, reminder.user_mobile) # NoRow
           db == update_reminder(store, reminder.id, reminder.user_mobile,
                                 [context |-> Some(context)], now)
       IN  /\ store' = db
           /\ NextReminder(Tail(eligible_reminders), db, expired \/ found)
    /\ UNCHANGED <<now, api_requests, owner_ops, rearmed, dial, fleetVars, api_call>>

\* crud.update_reminder raises (its query or its commit fails): nothing is
\* written and process_due_reminders catches the exception
PersistFails ==
    /\ pc = "persist"
    /\ pc' = "except"
    /\ error' = "SQLAlchemyError"
    /\ expired' = FALSE
    /\ ResetTick
    /\ UNCHANGED <<store, now, loopVars, api_requests, owner_ops, rearmed, dial, fleetVars, api_call>>

\* an exception handler that raises again: worker_loop catches the exception and
\* goes to its pause
Except_Reraises ==
    /\ pc = "except"
    /\ pc' = "pause"
    /\ error' = ""
    /\ UNCHANGED <<store, now, eligible_reminders, context, attempt, call_response,
                   burst, expired, loopVars, api_requests, owner_ops, rearmed, dial, fleetVars, api_call>>

\* an exception handler that lets the exception end the loop
Except_Fatal ==
    /\ pc = "except"
    /\ pc' = "stopped"
    /\ error' = ""
    /\ UNCHANGED <<store, now, eligible_reminders, context, attempt, call_response,
                   burst, expired, loopVars, api_requests, owner_ops, rearmed, dial, fleetVars, api_call>>

\* "except Exception as e": the error is logged, the session is closed and
\* process_due_reminders returns to worker_loop, which goes to its inter-tick sleep
Except ==
    /\ pc = "except"
    /\ EnterInterval
    /\ error' = ""
    /\ UNCHANGED <<store, now, eligible_reminders, context, attempt, call_response,
                   burst, expired, shutdown_requested, WORKER_ENABLED, api_requests,
                   owner_ops, rearmed, dial, fleetVars, api_call>>

\* a 1-second sleep of the inter-tick sleep ends and the next one starts
\* whatever the flag says
SubSleepEnd_Uninterruptible ==
    /\ pc = "sub_sleep"
    /\ remaining' = remaining - 1
    /\ pc' = IF remaining > 1 THEN "sub_sleep" ELSE "loop"
    /\ UNCHANGED <<store, now, eligible_reminders, context, attempt, call_response,
                   burst, expired, error, shutdown_requested, WORKER_ENABLED,
                   api_requests, owner_ops, rearmed, dial, fleetVars, api_call>>

\* inter-tick sleep: one "await asyncio.sleep(1)" is over; then the for loop is
\* over, or "if shutdown_requested: break" leaves it, or the next sleep starts
SubSleepEnd ==
    /\ pc = "sub_sleep"
    /\ remaining' = remaining - 1
    /\ pc' = IF remaining > 1 /\ ~shutdown_requested THEN "sub_sleep" ELSE "loop"
    /\ UNCHANGED <<store, now, eligible_reminders, context, attempt, call_response,
                   burst, expired, error, shutdown_requested, WORKER_ENABLED,
                   api_requests, owner_ops, rearmed, dial, fleetVars, api_call>>

\* signal_handler: SIGTERM or SIGINT arrives while the worker process runs; the
\* handler runs where the worker awaits or before worker_loop has started
signal_handler ==
    /\ pc \in {"start", "attempt", "backoff", "sub_sleep", "pause"}
    /\ ~shutdown_requested
    /\ shutdown_requested' = TRUE
    /\ UNCHANGED <<store, now, workerVars, WORKER_ENABLED, remaining, api_requests,
                   owner_ops, rearmed, dial, fleetVars, api_call>>

(* ------------------------------ owner ---------------------------------- *)

\* the update dicts an owner sends
OwnerUpdates ==
    {[due_datetime |-> Some(d)] : d \in 0..MaxTime}
    \cup {[status |-> Some(s)] : s \in {COMPLETED}}
    \cup {[destination_mobile |-> Some(d)] : d \in Destinations}
    \cup {[context |-> Some(c)] : c \in CallerContexts}

\* PUT /reminders/{reminder_id}
OwnerUpdate ==
    /\ owner_ops < MaxOwnerOps
    /\ \E id \in Ids, updates \in OwnerUpdates :
          /\ get_reminder(store, id, OwnerOf(id)) # NoRow
          /\ store' = update_reminder(store, id, OwnerOf(id), updates, now)
          /\ rearmed' = IF ClearsContext(store[id], updates, now)
                        THEN rearmed \cup {id}
                        ELSE rearmed \ {id}
    /\ owner_ops' = owner_ops + 1
    /\ UNCHANGED <<now, workerVars, loopVars, api_requests, dial, fleetVars, api_call>>

\* DELETE /reminders/{reminder_id}
OwnerDelete ==
    /\ owner_ops < MaxOwnerOps
    /\ \E id \in Ids :
          /\ get_reminder(store, id, OwnerOf(id)) # NoRow
          /\ store' = delete_reminder(store, id, OwnerOf(id))
          /\ rearmed' = rearmed \ {id}
    /\ owner_ops' = owner_ops + 1
    /\ UNCHANGED <<now, workerVars, loopVars, api_requests, dial, fleetVars, api_call>>

\* time passes, while the worker sleeps or awaits the call API (the code between
\* the response and the update_reminder call does not await)
ClockTick ==
    /\ now < MaxTime
    /\ pc # "persist"
    /\ now' = now + 1
    /\ UNCHANGED <<store, workerVars, loopVars, api_requests, owner_ops, rearmed, dial, fleetVars, api_call>>

(* --------------------------- specification ----------------------------- *)

\* a row as create_reminder stores it: due now with any destination, or with no
\* destination, or due later
InitRows(id) ==
    {[user_mobile |-> OwnerOf(id), destination_mobile |-> d, due_datetime |-> 0,
      status |-> PENDING, context |-> EmptyContext] :
        d \in Destinations \cup {NullDestination}}
    \cup {[user_mobile |-> OwnerOf(id), destination_mobile |-> DestPlus91,
           due_datetime |-> 1, status |-> PENDING, context |-> EmptyContext]}

\* an order on the initial rows: the two reminders are interchangeable, so of two
\* tables that differ only in which id holds which row, Init takes one
Rank(row) ==
    IF row = NoRow
    THEN 0
    ELSE 1 + row.due_datetime
           + 2 * (IF row.destination_mobile = NullDestination THEN 0
                  ELSE IF row.destination_mobile = DestShort THEN 1 ELSE 2)

NoDial == [destination_mobile |-> <<>>, returned |-> FALSE, payload |-> None]

Init ==
    /\ store \in [Ids -> UNION {InitRows(id) : id \in Ids} \cup {NoRow}]
    /\ \A id \in Ids : store[id] = NoRow \/ store[id] \in InitRows(id)
    /\ Rank(store["r1"]) <= Rank(store["r2"])
    /\ now = 0
    /\ pc = "start"
    /\ eligible_reminders = <<>>
    /\ context = EmptyContext
    /\ attempt = 1
    /\ call_response = None
    /\ burst = <<>>
    /\ expired = FALSE
    /\ error = ""
    /\ shutdown_requested = FALSE
    /\ WORKER_ENABLED \in BOOLEAN
    /\ remaining = 0
    /\ api_requests = {}
    /\ owner_ops = 0
    /\ rearmed = {}
    /\ instances = NoFleet
    /\ dispatched = NoDispatch
    /\ api_call = NoCall
    /\ dial = NoDial

\* the steps of the worker process
WorkerNext ==
    \/ WorkerEnabled
    \/ WorkerDisabled
    \/ Stop
    \/ Select
    \/ SelectFails
    \/ SessionLocalRaises
    \/ PauseEnd
    \/ AttemptRejected
    \/ AttemptSucceeds
    \/ AttemptFails
    \/ Backoff
    \/ Persist
    \/ PersistFails
    \/ Except
    \/ SubSleepEnd

Next ==
    \/ WorkerNext
    \/ signal_handler
    \/ OwnerUpdate
    \/ OwnerDelete
    \/ ClockTick

Spec == Init /\ [][Next]_vars

\* the event loop keeps running the worker coroutine: every sleep ends and every
\* awaited request returns
SpecFair == Spec /\ WF_vars(WorkerNext)

(* ------------- initiate_outgoing_call on its own (SpecDial) ------------ *)

\* the ten-character tails the dialled destinations are built from
Tails == [1..10 -> {"9", "1"}]

\* destination_mobile values given to initiate_outgoing_call
DialDestinations ==
    {<<"+", "9", "1", "9", "8", "7", "6", "5", "4", "3", "2", "1", "0">>,
     <<"9", "1", "9", "8", "7", "6", "5", "4", "3", "2", "1", "0">>,
     <<"+", "1", "9", "8", "7", "6", "5", "4", "3", "2", "1", "0">>,
     <<"9", "8", "7", "6", "5">>,
     <<"+", "9", "8", "7", "6", "5", "4", "3", "2", "1", "x">>}
    \cup {<<"+">> \o s : s \in Tails}
    \cup {<<"9", "1">> \o s : s \in Tails}
    \cup Tails

InitDial ==
    /\ store = [id \in Ids |-> NoRow]
    /\ now = 0
    /\ pc = "start"
    /\ eligible_reminders = <<>>
    /\ context = EmptyContext
    /\ attempt = 1
    /\ call_response = None
    /\ burst = <<>>
    /\ expired = FALSE
    /\ error = ""
    /\ shutdown_requested = FALSE
    /\ WORKER_ENABLED = TRUE
    /\ remaining = 0
    /\ api_requests = {}
    /\ owner_ops = 0
    /\ rearmed = {}
    /\ instances = NoFleet
    /\ dispatched = NoDispatch
    /\ api_call = NoCall
    /\ dial \in {[destination_mobile |-> d, returned |-> FALSE, payload |-> None] :
                    d \in DialDestinations}

\* initiate_outgoing_call logs "Invalid destination number format" and returns None
DialRejected ==
    /\ ~dial.returned
    /\ ~ValidDestination(StripCountryCode(dial.destination_mobile))
    /\ dial' = [dial EXCEPT !.returned = TRUE]
    /\ UNCHANGED <<store, now, workerVars, loopVars, api_requests, owner_ops, rearmed,
                   fleetVars, api_call>>

\* initiate_outgoing_call POSTs the payload
DialPosted ==
    /\ ~dial.returned
    /\ ValidDestination(StripCountryCode(dial.destination_mobile))
    /\ dial' = [dial EXCEPT !.returned = TRUE,
                            !.payload = Some(StripCountryCode(dial.destination_mobile))]
    /\ UNCHANGED <<store, now, workerVars, loopVars, api_requests, owner_ops, rearmed,
                   fleetVars, api_call>>

NextDial ==
    \/ DialRejected
    \/ DialPosted

SpecDial == InitDial /\ [][NextDial]_vars

(* --------------- update_reminder on stored contexts (SpecOwner) -------- *)

\* contexts a stored reminder can have: caller metadata or none, before a burst,
\* after a successful one and after a failed one
StoredContexts ==
    LET response == CHOOSE r \in ApiResponses : TRUE
        reminder == [id |-> "r1", destination_mobile |-> DestPlus91]
    IN  UNION {{c, SuccessContext(c, reminder, response, 2, 0), FailureContext(c, 0)} :
                  c \in CallerContexts}

\* the rows the owner's requests are applied to
StoredRows(id) ==
    {[user_mobile |-> OwnerOf(id), destination_mobile |-> DestPlus91, due_datetime |-> t,
      status |-> PENDING, context |-> c] : t \in 0..1, c \in StoredContexts}

\* a table of stored rows, after the worker has been shut down
InitOwner ==
    /\ store \in [Ids -> UNION {StoredRows(id) : id \in Ids} \cup {NoRow}]
    /\ \A id \in Ids : store[id] = NoRow \/ store[id] \in StoredRows(id)
    /\ now = 0
    /\ pc = "stopped"
    /\ eligible_reminders = <<>>
    /\ context = EmptyContext
    /\ attempt = 1
    /\ call_response = None
    /\ burst = <<>>
    /\ expired = FALSE
    /\ error = ""
    /\ shutdown_requested = TRUE
    /\ WORKER_ENABLED = TRUE
    /\ remaining = 0
    /\ api_requests = {}
    /\ owner_ops = 0
    /\ rearmed = {}
    /\ instances = NoFleet
    /\ dispatched = NoDispatch
    /\ api_call = NoCall
    /\ dial = NoDial

NextOwner ==
    \/ OwnerUpdate
    \/ OwnerDelete
    \/ ClockTick

SpecOwner == InitOwner /\ [][NextOwner]_vars

(* ------------- two worker processes on one store (SpecFleet) ----------- *)

\* "for reminder in eligible_reminders" over `rest` in one of the processes: the
\* locals at the start of the burst of the first reminder of `rest`, which is
\* loaded again when a commit of this session has expired it, or the locals
\* during the inter-tick sleep when the loop is over
FleetNext(rest, db, exp) ==
    IF rest = <<>>
    THEN [pc |-> "sleep", eligible_reminders |-> <<>>, context |-> EmptyContext,
          attempt |-> 1, call_response |-> None, expired |-> FALSE]
    ELSE LET reminder == IF exp THEN Loaded(db, Head(rest).id) ELSE Head(rest)
         IN  [pc |-> "attempt", eligible_reminders |-> <<reminder>> \o Tail(rest),
              context |-> reminder.context, attempt |-> 1, call_response |-> None,
              expired |-> (exp /\ Tail(rest) # <<>>)]

\* the locals of a process after an attempt that returned `response`
FleetAfterAttempt(me, response) ==
    IF response # None
    THEN [me EXCEPT !.call_response = response,
                    !.context = SuccessContext(me.context, Head(me.eligible_reminders),
                                               response[1], me.attempt, now),
                    !.pc = "persist"]
    ELSE IF me.attempt < max_retries
         THEN [me EXCEPT !.call_response = None, !.pc = "backoff"]
         ELSE [me EXCEPT !.call_response = None,
                         !.context = FailureContext(me.context, now),
                         !.pc = "persist"]

\* process w runs the selection of a tick
FleetSelect(w) ==
    /\ instances[w].pc = "loop"
    /\ \E order \in Orderings(AllDue(store, now)) :
          instances' = [instances EXCEPT
                           ![w] = FleetNext(get_due_reminders_for_calls(store, now, order),
                                            store, FALSE)]
    /\ UNCHANGED <<store, now, workerVars, loopVars, api_requests, owner_ops, rearmed,
                   dial, dispatched, api_call>>

\* the inter-tick sleep of process w is over
FleetWake(w) ==
    /\ instances[w].pc = "sleep"
    /\ instances' = [instances EXCEPT ![w].pc = "loop"]
    /\ UNCHANGED <<store, now, workerVars, loopVars, api_requests, owner_ops, rearmed,
                   dial, dispatched, api_call>>

\* initiate_outgoing_call in process w returns None without a request
FleetAttemptRejected(w) ==
    /\ instances[w].pc = "attempt"
    /\ ~ValidDestination(StripCountryCode(
            Head(instances[w].eligible_reminders).destination_mobile))
    /\ instances' = [instances EXCEPT ![w] = FleetAfterAttempt(instances[w], None)]
    /\ UNCHANGED <<store, now, workerVars, loopVars, api_requests, owner_ops, rearmed,
                   dial, dispatched, api_call>>

\* initiate_outgoing_call in process w POSTs and gets status 200
FleetAttemptSucceeds(w) ==
    /\ instances[w].pc = "attempt"
    /\ LET reminder == Head(instances[w].eligible_reminders)
       IN  /\ ValidDestination(StripCountryCode(reminder.destination_mobile))
           /\ api_requests' = api_requests \cup {Payload(reminder)}
           /\ dispatched' = [dispatched EXCEPT ![w][reminder.id] = @ + 1]
           /\ \E response \in ApiResponses :
                 instances' = [instances EXCEPT
                                  ![w] = FleetAfterAttempt(instances[w], Some(response))]
    /\ UNCHANGED <<store, now, workerVars, loopVars, owner_ops, rearmed, dial, api_call>>

\* initiate_outgoing_call in process w POSTs and the request fails
FleetAttemptFails(w) ==
    /\ instances[w].pc = "attempt"
    /\ LET reminder == Head(instances[w].eligible_reminders)
       IN  /\ ValidDestination(StripCountryCode(reminder.destination_mobile))
           /\ api_requests' = api_requests \cup {Payload(reminder)}
    /\ instances' = [instances EXCEPT ![w] = FleetAfterAttempt(instances[w], None)]
    /\ UNCHANGED <<store, now, workerVars, loopVars, owner_ops, rearmed, dial,
                   dispatched, api_call>>

\* await asyncio.sleep(delay) in process w, then its next attempt
FleetBackoff(w) ==
    /\ instances[w].pc = "backoff"
    /\ instances' = [instances EXCEPT ![w].attempt = @ + 1, ![w].pc = "attempt"]
    /\ UNCHANGED <<store, now, workerVars, loopVars, api_requests, owner_ops, rearmed,
                   dial, dispatched, api_call>>

\* crud.update_reminder in process w at the end of a burst, then its next reminder
FleetPersist(w) ==
    /\ instances[w].pc = "persist"
    /\ LET me == instances[w]
           reminder == Head(me.eligible_reminders)
           found == get_reminder(store, reminder.id, reminder.user_mobile) # NoRow
           db == update_reminder(store, reminder.id, reminder.user_mobile,
                                 [context |-> Some(me.context)], now)
       IN  /\ store' = db
           /\ instances' = [instances EXCEPT
                               ![w] = FleetNext(Tail(me.eligible_reminders), db,
                                                me.expired \/ found)]
    /\ UNCHANGED <<now, workerVars, loopVars, api_requests, owner_ops, rearmed, dial,
                   dispatched, api_call>>

\* the rows the two processes find: pending, due, with a destination, not attempted
FleetRows(id) ==
    {row \in InitRows(id) : row.due_datetime = 0 /\ row.destination_mobile \in Destinations}

\* two worker processes started on a table of reminders that are due; the clock
\* is held, every reminder being due from the start
InitFleet ==
    /\ store \in [Ids -> UNION {FleetRows(id) : id \in Ids} \cup {NoRow}]
    /\ store["r1"] \in FleetRows("r1")
    /\ store["r1"].destination_mobile = DestPlus91
    /\ now = 0
    /\ pc = "stopped"
    /\ eligible_reminders = <<>>
    /\ context = EmptyContext
    /\ attempt = 1
    /\ call_response = None
    /\ burst = <<>>
    /\ expired = FALSE
    /\ error = ""
    /\ shutdown_requested = TRUE
    /\ WORKER_ENABLED = TRUE
    /\ remaining = 0
    /\ api_requests = {}
    /\ owner_ops = MaxOwnerOps
    /\ rearmed = {}
    /\ dial = NoDial
    /\ instances = [w \in Instances |-> [NotRunning EXCEPT !.pc = "loop"]]
    /\ dispatched = NoDispatch
    /\ api_call = NoCall

NextFleet ==
    \E w \in Instances :
          \/ FleetSelect(w)
          \/ FleetWake(w)
          \/ FleetAttemptRejected(w)
          \/ FleetAttemptSucceeds(w)
          \/ FleetAttemptFails(w)
          \/ FleetBackoff(w)
          \/ FleetPersist(w)

SpecFleet == InitFleet /\ [][NextFleet]_vars

(* --------------- the reminder store and its two front ends ------------- *)

\* another user than the owner of the reminders
OtherUser == <<"+", "1", "2", "3", "4", "5", "6", "7", "8", "9", "0">>

Users == {OwnerOf("r1"), OtherUser}

\* ZoneInfo('Asia/Kolkata'): minutes that local time is ahead of UTC
IST_OFFSET == 330

\* a timestamp as a caller writes it: the wall-clock reading, in minutes, and the
\* zone it carries ("naive" when it carries none)
Timestamp(wall, tz) == [wall |-> wall, tz |-> tz]

\* minutes that a zone is ahead of UTC
UtcOffset(tz) == IF tz = "+05:30" THEN IST_OFFSET ELSE 0

\* crud.py: "if due_dt.tzinfo is None: due_dt = due_dt.replace(tzinfo=timezone.utc)";
\* the instant of the datetime that create_reminder and update_reminder store
EnsureUtc(dt) ==
    IF dt.tz = "naive"
    THEN dt.wall
    ELSE dt.wall - UtcOffset(dt.tz)

\* mcp_server.parse_datetime_to_utc: the datetime it returns, which is in UTC
parse_datetime_to_utc(dt) ==
    LET aware == IF dt.tz = "naive" THEN Timestamp(dt.wall, "+05:30") ELSE dt
    IN  Timestamp(aware.wall - UtcOffset(aware.tz), "Z")

\* the members of PriorityEnum
PriorityMember(value) == [enum |-> "PriorityEnum", value |-> value]

\* PriorityEnum[priority.upper()]
PriorityEnum(priority) ==
    IF priority = "low"
    THEN PriorityMember("low")
    ELSE IF priority = "medium"
         THEN PriorityMember("medium")
         ELSE PriorityMember("high")

\* dict.get(key) of a dict whose values are None or Some(v): None when the key is
\* absent
GetOpt(d, key) == IF key \in DOMAIN d THEN d[key] ELSE None

\* dict.get(key, default) of such a dict: the value, which may be None
GetOr(d, key, default) == IF key \in DOMAIN d THEN d[key] ELSE Some(default)

\* "not value" for an optional string: None or the empty string
Falsy(value) == value = None \/ value = Some(<<>>)

\* the row create_reminder without the destination default stores
create_reminder_NoDefault(reminder_id, reminder_data, t) ==
    [id |-> reminder_id,
     user_mobile |-> reminder_data["user_mobile"][1],
     destination_mobile |-> IF GetOpt(reminder_data, "destination_mobile") = None
                            THEN NullDestination
                            ELSE reminder_data["destination_mobile"][1],
     title |-> reminder_data["title"][1],
     description |-> GetOr(reminder_data, "description", <<>>)[1],
     due_datetime |-> EnsureUtc(reminder_data["due_datetime"][1]),
     priority |-> PriorityEnum(GetOr(reminder_data, "priority", "medium")[1]),
     status |-> PENDING,
     context |-> GetOr(reminder_data, "context", EmptyContext)[1],
     created_at |-> t,
     updated_at |-> t]

\* crud.create_reminder: the row it adds, commits and returns, with the id that
\* uuid4 gave
create_reminder(reminder_id, reminder_data, t) ==
    [id |-> reminder_id,
     user_mobile |-> reminder_data["user_mobile"][1],
     destination_mobile |-> IF Falsy(GetOpt(reminder_data, "destination_mobile"))
                            THEN reminder_data["user_mobile"][1]
                            ELSE reminder_data["destination_mobile"][1],
     title |-> reminder_data["title"][1],
     description |-> GetOr(reminder_data, "description", <<>>)[1],
     due_datetime |-> EnsureUtc(reminder_data["due_datetime"][1]),
     priority |-> PriorityEnum(GetOr(reminder_data, "priority", "medium")[1]),
     status |-> PENDING,
     context |-> GetOr(reminder_data, "context", EmptyContext)[1],
     created_at |-> t,
     updated_at |-> t]

\* a caller context that carries a reserved dispatch key
ReservedContext == [call_initiated |-> TRUE]

\* the timestamps callers send: ISO 8601 with no zone, with Z and with +05:30
CallerDatetimes == {Timestamp(wall, tz) : wall \in {1, 1 + IST_OFFSET}, tz \in {"naive", "Z", "+05:30"}}

\* "not value" for an optional str held as a string
FalsyStr(value) == value = None \/ value[1] = ""

\* pattern=r'^\+?[1-9]\d{1,14}$' of the mobile number fields
MatchesMobilePattern(s) ==
    LET rest == IF Len(s) > 0 /\ s[1] = "+" THEN Tail(s) ELSE s
    IN  /\ Len(rest) \in 2..15
        /\ rest[1] \in Digits \ {"0"}
        /\ \A i \in 2..Len(rest) : rest[i] \in Digits

\* the arguments every create request carries
CreateArgs(user_mobile, due_datetime) ==
    [user_mobile |-> Some(user_mobile), title |-> Some("t1"),
     due_datetime |-> Some(due_datetime)]

\* the create requests callers send, to either front end: any user and timestamp,
\* and then a destination, a context or a priority with them
CreateRequests ==
    {CreateArgs(u, dt) : u \in Users, dt \in CallerDatetimes}
    \cup {[destination_mobile |-> d] @@ CreateArgs(OwnerOf("r1"), Timestamp(1, "Z")) :
             d \in {None, Some(<<>>), Some(DestShort), Some(OtherUser)}}
    \cup {[context |-> Some(c)] @@ CreateArgs(OwnerOf("r1"), Timestamp(1, "Z")) :
             c \in CallerContexts \cup {ReservedContext}}
    \cup {[priority |-> Some("high"), description |-> Some("d1")]
             @@ CreateArgs(OwnerOf("r1"), Timestamp(1, "Z"))}

\* ReminderCreate: the bodies POST /reminders accepts
ReminderCreate(body) ==
    /\ MatchesMobilePattern(body["user_mobile"][1])
    /\ GetOpt(body, "destination_mobile") # None
          => MatchesMobilePattern(body["destination_mobile"][1])

\* reminder.model_dump() of POST /reminders: every field of ReminderCreate, with
\* its default where the body has none
HttpCreateData(body) ==
    [user_mobile |-> body["user_mobile"],
     destination_mobile |-> GetOpt(body, "destination_mobile"),
     title |-> body["title"],
     description |-> GetOr(body, "description", ""),
     due_datetime |-> body["due_datetime"],
     priority |-> GetOr(body, "priority", "medium"),
     context |-> GetOr(body, "context", EmptyContext)]

\* the reminder_data dict the create_reminder tool builds
McpCreateData(args) ==
    [user_mobile |-> args["user_mobile"],
     destination_mobile |-> IF Falsy(GetOpt(args, "destination_mobile"))
                            THEN args["user_mobile"]
                            ELSE args["destination_mobile"],
     title |-> args["title"],
     description |-> GetOr(args, "description", ""),
     due_datetime |-> Some(parse_datetime_to_utc(args["due_datetime"][1])),
     priority |-> GetOr(args, "priority", "medium"),
     context |-> IF GetOpt(args, "context") = None \/ args["context"] = Some(EmptyContext)
                 THEN Some(EmptyContext)
                 ELSE args["context"]]

\* the reminder_data that a front end hands to crud.create_reminder
CreateData(front_end, request) ==
    IF front_end = "http" THEN HttpCreateData(request) ELSE McpCreateData(request)

\* a create request served: the row is added under a fresh uuid
Create(front_end, request) ==
    /\ owner_ops < MaxOwnerOps
    /\ \E reminder_id \in Ids :
          /\ store[reminder_id] = NoRow
          /\ LET reminder_data == CreateData(front_end, request)
                 db_reminder == create_reminder(reminder_id, reminder_data, now)
             IN  /\ store' = [store EXCEPT ![reminder_id] = db_reminder]
                 /\ api_call' = [op |-> "create", front_end |-> front_end,
                                 request |-> request, reminder_id |-> reminder_id,
                                 user_mobile |-> db_reminder.user_mobile,
                                 data |-> reminder_data, result |-> Some(db_reminder)]
    /\ owner_ops' = owner_ops + 1
    /\ UNCHANGED <<now, workerVars, loopVars, api_requests, rearmed, dial, fleetVars>>

\* POST /reminders
HttpCreate ==
    \E body \in CreateRequests :
        /\ ReminderCreate(body)
        /\ Create("http", body)

\* the create_reminder tool
McpCreate == \E args \in CreateRequests : Create("mcp", args)

\* StatusEnum[status.upper()]
StatusMember(status) ==
    IF status = "pending"
    THEN PENDING
    ELSE IF status = "completed" THEN COMPLETED ELSE CANCELLED

\* the values update_reminder sets for the values it is given: enum members for
\* the strings, and UTC for a due_datetime
CoerceUpdates(updates) ==
    [key \in DOMAIN updates |->
        IF updates[key] = None
        THEN None
        ELSE IF key = "priority"
             THEN Some(PriorityEnum(updates[key][1]))
             ELSE IF key = "status"
                  THEN Some(StatusMember(updates[key][1]))
                  ELSE IF key = "due_datetime"
                       THEN Some(EnsureUtc(updates[key][1]))
                       ELSE updates[key]]

\* what update_reminder returns: the reminder it committed, or None
UpdateResult(db, reminder_id, user_mobile, updates, t) ==
    IF get_reminder(db, reminder_id, user_mobile) = NoRow
    THEN None
    ELSE Some(update_reminder(db, reminder_id, user_mobile, updates, t)[reminder_id])

\* what delete_reminder returns
DeleteResult(db, reminder_id, user_mobile) ==
    get_reminder(db, reminder_id, user_mobile) # NoRow

\* the update requests callers send, to either front end
UpdateRequests ==
    {[due_datetime |-> Some(dt)] : dt \in CallerDatetimes}
    \cup {[title |-> Some("t2")], [title |-> None], [title |-> Some("")],
          [description |-> Some("d2")], [priority |-> Some("low")],
          [status |-> Some("completed")], [destination_mobile |-> Some(DestShort)],
          [title |-> Some("t2"), status |-> None,
           due_datetime |-> Some(Timestamp(1 + IST_OFFSET, "Z"))]}

\* ReminderUpdate: the bodies PUT /reminders/{reminder_id} accepts
ReminderUpdate(body) ==
    /\ GetOpt(body, "title") # None => body["title"][1] # ""
    /\ GetOpt(body, "destination_mobile") # None
          => MatchesMobilePattern(body["destination_mobile"][1])

\* updates.model_dump(exclude_unset=True): the fields the body sets, null or not
HttpUpdateData(body) == [key \in DOMAIN body |-> body[key]]

\* the updates dict the update_reminder tool builds
McpUpdateData(args) ==
    LET given == {key \in DOMAIN args :
                     IF key \in {"description", "destination_mobile"}
                     THEN args[key] # None
                     ELSE IF key = "due_datetime"
                          THEN args[key] # None
                          ELSE ~FalsyStr(args[key])}
    IN  [key \in given |->
            IF key = "due_datetime"
            THEN Some(parse_datetime_to_utc(args[key][1]))
            ELSE args[key]]

\* the updates that a front end hands to crud.update_reminder
UpdateData(front_end, request) ==
    IF front_end = "http" THEN HttpUpdateData(request) ELSE McpUpdateData(request)

\* HTTPException(status_code=404, detail="Reminder not found")
HttpNotFound == [status_code |-> 404, detail |-> <<"Reminder not found">>, body |-> None]

\* the response of a handler that returns
Ok(body) == [status_code |-> 200, detail |-> <<>>, body |-> Some(body)]

\* GET /reminders/{reminder_id}: the response
http_get_reminder(db, reminder_id, user_mobile) ==
    LET reminder == get_reminder(db, reminder_id, user_mobile)
    IN  IF reminder = NoRow THEN HttpNotFound ELSE Ok(reminder)

\* PUT /reminders/{reminder_id}: the response. The 404 is raised inside the try,
\* and "except Exception as e" answers it with a 400 whose detail is
\* "Error updating reminder: " followed by str(e)
http_update_reminder(db, reminder_id, user_mobile, updates, t) ==
    LET reminder == UpdateResult(db, reminder_id, user_mobile, updates, t)
        e == HttpNotFound
    IN  IF reminder = None
        THEN [status_code |-> 400,
              detail |-> <<"Error updating reminder: ", "404: ">> \o e.detail,
              body |-> None]
        ELSE Ok(reminder[1])

\* DELETE /reminders/{reminder_id}: the response
http_delete_reminder(db, reminder_id, user_mobile) ==
    IF ~DeleteResult(db, reminder_id, user_mobile)
    THEN HttpNotFound
    ELSE Ok([message |-> "Reminder deleted successfully", reminder_id |-> reminder_id])

\* an update request served
Update(front_end, request) ==
    /\ owner_ops < MaxOwnerOps
    /\ \E reminder_id \in Ids, user_mobile \in Users :
          LET updates == UpdateData(front_end, request)
          IN  /\ store' = update_reminder(store, reminder_id, user_mobile,
                                          CoerceUpdates(updates), now)
              /\ api_call' = [op |-> "update", front_end |-> front_end,
                              request |-> request, reminder_id |-> reminder_id,
                              user_mobile |-> user_mobile, data |-> updates,
                              result |-> UpdateResult(store, reminder_id, user_mobile,
                                                      CoerceUpdates(updates), now)]
                             @@ (IF front_end = "http"
                                 THEN [response |->
                                          http_update_reminder(store, reminder_id,
                                             user_mobile, CoerceUpdates(updates), now)]
                                 ELSE EmptyContext)
    /\ owner_ops' = owner_ops + 1
    /\ UNCHANGED <<now, workerVars, loopVars, api_requests, rearmed, dial, fleetVars>>

\* PUT /reminders/{reminder_id}
HttpUpdate ==
    \E body \in UpdateRequests \cup {[context |-> Some(c)] : c \in CallerContexts} :
        /\ ReminderUpdate(body)
        /\ Update("http", body)

\* the update_reminder tool
McpUpdate == \E args \in UpdateRequests : Update("mcp", args)

\* DELETE /reminders/{reminder_id} and the delete_reminder tool
Delete ==
    /\ owner_ops < MaxOwnerOps
    /\ \E front_end \in {"http", "mcp"}, reminder_id \in Ids, user_mobile \in Users :
          /\ store' = delete_reminder(store, reminder_id, user_mobile)
          /\ api_call' = [op |-> "delete", front_end |-> front_end,
                          reminder_id |-> reminder_id, user_mobile |-> user_mobile,
                          result |-> DeleteResult(store, reminder_id, user_mobile)]
                         @@ (IF front_end = "http"
                             THEN [response |->
                                      http_delete_reminder(store, reminder_id, user_mobile)]
                             ELSE EmptyContext)
    /\ owner_ops' = owner_ops + 1
    /\ UNCHANGED <<now, workerVars, loopVars, api_requests, rearmed, dial, fleetVars>>

\* the rows of the reminders created before the requests that are followed
CreatedRows(id) ==
    {create_reminder(id, HttpCreateData(body), 0) :
        body \in {CreateArgs(u, Timestamp(1, "Z")) : u \in Users}
                 \cup {[context |-> Some([note |-> "n1"])]
                          @@ CreateArgs(OwnerOf(id), Timestamp(1, "Z"))}}

\* the store with the reminders created so far, the worker not running
InitCrud ==
    /\ store \in [Ids -> UNION {CreatedRows(id) : id \in Ids} \cup {NoRow}]
    /\ \A id \in Ids : store[id] = NoRow \/ store[id] \in CreatedRows(id)
    /\ now = 0
    /\ pc = "stopped"
    /\ eligible_reminders = <<>>
    /\ context = EmptyContext
    /\ attempt = 1
    /\ call_response = None
    /\ burst = <<>>
    /\ expired = FALSE
    /\ error = ""
    /\ shutdown_requested = TRUE
    /\ WORKER_ENABLED = TRUE
    /\ remaining = 0
    /\ api_requests = {}
    /\ owner_ops = 0
    /\ rearmed = {}
    /\ instances = NoFleet
    /\ dispatched = NoDispatch
    /\ api_call = NoCall
    /\ dial = NoDial

NextCrud ==
    \/ HttpCreate
    \/ McpCreate
    \/ HttpUpdate
    \/ McpUpdate
    \/ Delete
    \/ ClockTick

SpecCrud == InitCrud /\ [][NextCrud]_vars

\* the reminders that the query of get_reminders_by_user matches
UserReminders(db, user_mobile, status) ==
    {id \in Ids : /\ db[id] # NoRow
                  /\ db[id].user_mobile = user_mobile
                  /\ ~FalsyStr(status) => db[id].status = StatusMember(status[1])}

\* the orders in which order_by(Reminder.due_datetime.desc()) can return them
DueDescending(db, user_mobile, status) ==
    {order \in Orderings(UserReminders(db, user_mobile, status)) :
        \A i, j \in 1..Len(order) :
            i < j => db[order[i]].due_datetime >= db[order[j]].due_datetime}

\* the query with the order reversed: the rows that are due first
get_reminders_by_user_Ascending(db, user_mobile, status, limit, order) ==
    [i \in 1..(IF limit < Len(order) THEN limit ELSE Len(order)) |->
        db[order[Len(order) + 1 - i]]]

\* get_reminders_by_user, the matching rows being returned in the order `order`
get_reminders_by_user(db, user_mobile, status, limit, order) ==
    [i \in 1..(IF limit < Len(order) THEN limit ELSE Len(order)) |-> db[order[i]]]

\* the filter of get_due_reminders without the test of the status
DueNow_AnyStatus(db, user_mobile, t) ==
    {id \in Ids : /\ db[id] # NoRow
                  /\ db[id].user_mobile = user_mobile
                  /\ db[id].due_datetime <= t}

\* the reminders that the filter of get_due_reminders matches at time t
DueNow(db, user_mobile, t) ==
    {id \in Ids : /\ db[id] # NoRow
                  /\ db[id].user_mobile = user_mobile
                  /\ db[id].status = PENDING
                  /\ db[id].due_datetime <= t}

\* the orders in which order_by(Reminder.due_datetime) can return them
DueAscending(db, user_mobile, t) ==
    {order \in Orderings(DueNow(db, user_mobile, t)) :
        \A i, j \in 1..Len(order) :
            i < j => db[order[i]].due_datetime <= db[order[j]].due_datetime}

\* get_due_reminders, the matching rows being returned in the order `order`
get_due_reminders(db, user_mobile, t, order) ==
    [i \in 1..Len(order) |-> db[order[i]]]

(* ------------ the service stopped and started again (SpecRestart) ------- *)

\* main.shutdown_services: the worker process has had SIGTERM and is still running
\* a tick when the wait for it times out: process.kill() ends it where it is,
\* and nothing of the tick is left
Kill ==
    /\ shutdown_requested
    /\ pc \in {"attempt", "backoff", "persist"}
    /\ pc' = "killed"
    /\ ResetTick
    /\ expired' = FALSE
    /\ error' = ""
    /\ remaining' = 0
    /\ UNCHANGED <<store, now, shutdown_requested, WORKER_ENABLED, api_requests,
                   owner_ops, rearmed, dial, fleetVars, api_call>>

\* main.main run again: a new worker process, whose flag is not set
Restart ==
    /\ pc \in {"killed", "stopped"}
    /\ pc' = "start"
    /\ shutdown_requested' = FALSE
    /\ UNCHANGED <<store, now, eligible_reminders, context, attempt, call_response,
                   burst, expired, error, WORKER_ENABLED, remaining, api_requests,
                   owner_ops, rearmed, dial, fleetVars, api_call>>

\* contexts of reminders that are not dispatch-terminal: as callers supply them,
\* with or without a retry count
CountedContexts ==
    {EmptyContext, [call_retry_count |-> 2], [call_retry_count |-> max_retries]}

\* rows that are due, with a context a caller supplied
RestartRows(id) ==
    {[user_mobile |-> OwnerOf(id), destination_mobile |-> d, due_datetime |-> 0,
      status |-> PENDING, context |-> c] : d \in Destinations, c \in CountedContexts}

\* the worker about to start on a table of such rows, the owner making no request
InitRestart ==
    /\ store \in [Ids -> UNION {RestartRows(id) : id \in Ids} \cup {NoRow}]
    /\ \A id \in Ids : store[id] = NoRow \/ store[id] \in RestartRows(id)
    /\ now = 0
    /\ pc = "start"
    /\ eligible_reminders = <<>>
    /\ context = EmptyContext
    /\ attempt = 1
    /\ call_response = None
    /\ burst = <<>>
    /\ expired = FALSE
    /\ error = ""
    /\ shutdown_requested = FALSE
    /\ WORKER_ENABLED = TRUE
    /\ remaining = 0
    /\ api_requests = {}
    /\ owner_ops = MaxOwnerOps
    /\ rearmed = {}
    /\ instances = NoFleet
    /\ dispatched = NoDispatch
    /\ api_call = NoCall
    /\ dial = NoDial

\* the worker with the store available, the signal, and the service stopped and
\* started again
NextRestart ==
    \/ WorkerEnabled
    \/ Stop
    \/ Select
    \/ AttemptRejected
    \/ AttemptSucceeds
    \/ AttemptFails
    \/ Backoff
    \/ Persist
    \/ SubSleepEnd
    \/ signal_handler
    \/ Kill
    \/ Restart

SpecRestart == InitRestart /\ [][NextRestart]_vars

(* ------- the owner editing a reminder under a burst (SpecSnapshot) ------ *)

\* the update dicts that take a reminder out of dispatch or redirect it
OwnerEdits ==
    {[status |-> Some(s)] : s \in {COMPLETED, CANCELLED}}
    \cup {[destination_mobile |-> Some(d)] : d \in Destinations}

\* PUT /reminders/{reminder_id} with one of them
OwnerEdit ==
    /\ owner_ops < MaxOwnerOps
    /\ \E id \in Ids, updates \in OwnerEdits :
          /\ get_reminder(store, id, OwnerOf(id)) # NoRow
          /\ store' = update_reminder(store, id, OwnerOf(id), updates, now)
          /\ rearmed' = IF ClearsContext(store[id], updates, now)
                        THEN rearmed \cup {id}
                        ELSE rearmed \ {id}
    /\ owner_ops' = owner_ops + 1
    /\ UNCHANGED <<now, workerVars, loopVars, api_requests, dial, fleetVars, api_call>>

\* the worker, the signal and an owner who completes, cancels or redirects
NextSnapshot ==
    \/ WorkerNext
    \/ signal_handler
    \/ OwnerEdit

SpecSnapshot == Init /\ [][NextSnapshot]_vars

(* -------- updates of reminders the worker has dealt with (SpecEdit) ----- *)

\* the created rows with the contexts the worker leaves, or none
DispatchedRows(id) ==
    {[row EXCEPT !.context = c] : row \in CreatedRows(id), c \in StoredContexts}

\* the store some time after the reminders were created, the worker not running
InitEdit ==
    /\ store \in [Ids -> UNION {DispatchedRows(id) : id \in Ids} \cup {NoRow}]
    /\ store["r1"] \in DispatchedRows("r1")
    /\ store["r2"] = NoRow
    /\ now = 0
    /\ pc = "stopped"
    /\ eligible_reminders = <<>>
    /\ context = EmptyContext
    /\ attempt = 1
    /\ call_response = None
    /\ burst = <<>>
    /\ expired = FALSE
    /\ error = ""
    /\ shutdown_requested = TRUE
    /\ WORKER_ENABLED = TRUE
    /\ remaining = 0
    /\ api_requests = {}
    /\ owner_ops = 0
    /\ rearmed = {}
    /\ instances = NoFleet
    /\ dispatched = NoDispatch
    /\ api_call = NoCall
    /\ dial = NoDial

\* update requests through either front end, and time passing
NextEdit ==
    \/ HttpUpdate
    \/ McpUpdate
    \/ ClockTick

SpecEdit == InitEdit /\ [][NextEdit]_vars

(* ------------------------------ properties ----------------------------- *)

\* the row is there and its context marks it dispatch-terminal
IsTerminal(row) ==
    /\ row # NoRow
    /\ Get(row.context, "call_initiated", FALSE) \/ Get(row.context, "call_failed", FALSE)

\* the ids get_due_reminders_for_calls returns at time t, in whatever row order
Returned(db, t) ==
    UNION {IdsOf(get_due_reminders_for_calls(db, t, order)) :
              order \in Orderings(AllDue(db, t))}

\* never returned, at any time
NeverReturned(db, id) == \A t \in 0..MaxTime : id \notin Returned(db, t)

\* this step is an owner update that moves the reminder to a different, future due time
RescheduleStep(id) ==
    /\ owner_ops' # owner_ops
    /\ store[id] # NoRow /\ store'[id] # NoRow
    /\ store'[id].due_datetime # store[id].due_datetime
    /\ store'[id].due_datetime > now

\* this step is an owner update that supplies a context
ContextUpdateStep(id) ==
    /\ owner_ops' # owner_ops
    /\ store[id] # NoRow /\ store'[id] # NoRow
    /\ store'[id].due_datetime = store[id].due_datetime
    /\ store'[id].context # store[id].context

\* this step is the worker's update_reminder call that ends a burst
PersistStep == pc = "persist" /\ pc' # "persist" /\ error' # "SQLAlchemyError"

\* the row the worker's update_reminder call finds, or NoRow
PersistTarget ==
    get_reminder(store, Head(eligible_reminders).id, Head(eligible_reminders).user_mobile)

FailedEntry(e, n) == e \in {<<"failed", n>>, <<"rejected", n>>}

\* the burst log is attempt 1, sleep 2, attempt 2, sleep 4, attempt 3, cut off
\* somewhere, and every attempt before the last entry failed
BurstShape ==
    /\ Len(burst) <= 2 * max_retries - 1
    /\ \A i \in 1..Len(burst) :
          IF i % 2 = 1
          THEN /\ burst[i][2] = (i + 1) \div 2
               /\ burst[i][1] \in {"ok", "failed", "rejected"}
               /\ i < Len(burst) => FailedEntry(burst[i], (i + 1) \div 2)
          ELSE burst[i] = <<"sleep", 2 ^ (i \div 2)>>

\* the log of a burst in which all three attempts failed
AllFailedBurst ==
    /\ Len(burst) = 5
    /\ FailedEntry(burst[1], 1)
    /\ burst[2] = <<"sleep", 2>>
    /\ FailedEntry(burst[3], 2)
    /\ burst[4] = <<"sleep", 4>>
    /\ FailedEntry(burst[5], 3)

C3_FirstSuccessEndsBurst ==
    /\ [](/\ BurstShape
          /\ (\E i \in 1..Len(burst) : burst[i][1] = "ok") => pc = "persist"
          /\ (pc = "persist" /\ call_response # None) =>
                /\ Len(burst) = 2 * attempt - 1
                /\ burst[Len(burst)] = <<"ok", attempt>>
                /\ Get(context, "call_initiated", FALSE) = TRUE
                /\ Get(context, "call_retry_count", 0) = attempt
                /\ Get(context, "call_id", "") = call_response[1].call_id
                /\ Get(context, "call_agent_number", "") = call_response[1].agent_number)
    /\ [][(PersistStep /\ call_response # None) =>
             /\ Head(eligible_reminders).id \notin IdsOf(eligible_reminders')
             /\ burst' = <<>>
             /\ PersistTarget # NoRow =>
                   /\ store'[Head(eligible_reminders).id].context = context
                   /\ NeverReturned(store', Head(eligible_reminders).id)]_vars

\* C3 witness: one reminder, due in the past and never attempted before, stored
\* with call_initiated after a successful first attempt, and another stored with
\* call_initiated after a failed first and successful second attempt.
C3_Witness ==
    \E a \in Ids, b \in Ids :
        /\ store[a] # NoRow /\ store[b] # NoRow
        /\ Get(store[a].context, "call_initiated", FALSE)
        /\ Get(store[a].context, "call_retry_count", 0) = 1
        /\ store[a].due_datetime < Get(store[a].context, "call_timestamp", 0)
        /\ Get(store[b].context, "call_initiated", FALSE)
        /\ Get(store[b].context, "call_retry_count", 0) = 2
        /\ NeverReturned(store, a) /\ NeverReturned(store, b)

\* C4 (as claimed): when the owner has rescheduled the reminder to a new future
\* due_datetime since the worker selected it, which cleared its context, the
\* worker's persist leaves the stored context without call_initiated and
\* call_failed.
C4_StalePersistKeepsFreshState ==
    [][(/\ PersistStep
        /\ PersistTarget # NoRow
        /\ PersistTarget.due_datetime # Head(eligible_reminders).due_datetime
        /\ PersistTarget.due_datetime > now
        /\ ~IsTerminal(PersistTarget))
          => ~IsTerminal(store'[Head(eligible_reminders).id])]_vars

\* C5 (as claimed): a reminder that an update moved to a different, future
\* due_datetime has none of the reserved dispatch keys in its context, and
\* when it is pending with a destination and the new time has passed,
\* get_due_reminders_for_calls returns it, until it has been selected again (or
\* its owner updates or deletes it).
C5_RescheduleRearms ==
    \A id \in rearmed :
        /\ store[id] # NoRow
        /\ DOMAIN store[id].context \cap ReservedKeys = {}
        /\ (/\ store[id].status = PENDING
            /\ store[id].destination_mobile # NullDestination
            /\ store[id].due_datetime <= now) => id \in Returned(store, now)

\* C6 (as claimed): the deletion of a selected reminder before its burst is over
\* raises no error in the worker; the update_reminder call at the end of its
\* burst finds no row, leaves the table as it is, and the worker goes on with
\* the next reminder of the tick.
C6_DeletedMidBurst ==
    /\ [](error # "ObjectDeletedError")
    /\ [][(PersistStep /\ PersistTarget = NoRow) =>
              /\ store' = store
              /\ Tail(eligible_reminders) # <<>> =>
                    /\ pc' = "attempt"
                    /\ attempt' = 1
                    /\ IdsOf(eligible_reminders') = IdsOf(Tail(eligible_reminders))]_vars

\* the reminders the selector is to return at time t
Eligible(db, t) ==
    {id \in Ids : /\ db[id] # NoRow
                  /\ db[id].status = PENDING
                  /\ db[id].due_datetime <= t
                  /\ db[id].destination_mobile # NullDestination
                  /\ ~("call_initiated" \in DOMAIN db[id].context
                       /\ db[id].context["call_initiated"] = TRUE)
                  /\ ~("call_failed" \in DOMAIN db[id].context
                       /\ db[id].context["call_failed"] = TRUE)}

PlusAndTenDigits(d) ==
    Len(d) = 11 /\ d[1] = "+" /\ IsDigit(DropPrefix(d, 1))

\* C8 (as claimed): initiate_outgoing_call dispatches "+919876543210" and
\* "919876543210" as "9876543210", rejects "+19876543210" and "98765",
\* dispatches only numbers of exactly 10 digits, and dispatches every destination
\* that is a plus sign followed by exactly 10 digits as those 10 digits.
C8_Normalization ==
    dial.returned =>
        LET d == dial.destination_mobile
            local == <<"9", "8", "7", "6", "5", "4", "3", "2", "1", "0">>
        IN  /\ d = <<"+", "9", "1">> \o local => dial.payload = Some(local)
            /\ d = <<"9", "1">> \o local => dial.payload = Some(local)
            /\ d = <<"+", "1">> \o local => dial.payload = None
            /\ d = <<"9", "8", "7", "6", "5">> => dial.payload = None
            /\ dial.payload # None =>
                  Len(dial.payload[1]) = 10 /\ IsDigit(dial.payload[1])
            /\ PlusAndTenDigits(d) => dial.payload = Some(DropPrefix(d, 1))

\* the snapshot's destination passes the normalization of initiate_outgoing_call
Dialable(reminder) ==
    ValidDestination(StripCountryCode(reminder.destination_mobile))

\* the worker is in the burst of the first reminder of eligible_reminders
InBurst == pc \in {"attempt", "backoff", "persist"}

C10_PersistKeepsOtherKeys ==
    [][(PersistStep /\ PersistTarget # NoRow) =>
          \A k \in DOMAIN PersistTarget.context \ WorkerKeys :
              /\ k \in DOMAIN store'[Head(eligible_reminders).id].context
              /\ store'[Head(eligible_reminders).id].context[k] = PersistTarget.context[k]]_vars

\* the context without the reserved dispatch keys
WithoutReserved(ctx) == [k \in DOMAIN ctx \ ReservedKeys |-> ctx[k]]

\* C11 (as claimed): an owner update that moves a reminder to a different, future
\* due_datetime removes the reserved dispatch keys from its context and leaves
\* every other key of the context with its value.
C11_RescheduleKeepsCallerKeys ==
    [][\A id \in Ids :
          RescheduleStep(id) =>
              /\ DOMAIN store'[id].context \cap ReservedKeys = {}
              /\ \A k \in DOMAIN store[id].context \ WorkerKeys :
                    /\ k \in DOMAIN store'[id].context
                    /\ store'[id].context[k] = store[id].context[k]]_vars

\* the stored row of id has this key set to true
StoredTrue(db, id, key) == db[id] # NoRow /\ Get(db[id].context, key, FALSE) = TRUE

\* the burst log has a successful attempt
BurstSucceeded == \E i \in 1..Len(burst) : burst[i][1] = "ok"

\* C12: call_failed = true comes into a stored context only through the worker's
\* persist at the end of a burst of that reminder whose three attempts all failed;
\* the persist of a burst with a successful attempt stores no call_failed.
C12_FailedOnlyAfterThreeFailures ==
    /\ [][\A id \in Ids :
             (StoredTrue(store', id, "call_failed") /\ ~StoredTrue(store, id, "call_failed")) =>
                 /\ PersistStep
                 /\ Head(eligible_reminders).id = id
                 /\ AllFailedBurst
                 /\ ~BurstSucceeded]_vars
    /\ [][(PersistStep /\ BurstSucceeded) =>
             ~StoredTrue(store', Head(eligible_reminders).id, "call_failed")]_vars

\* C12 witness: one reminder is stored as failed and another as called, and the
\* called one has no call_failed key.
C12_Witness ==
    \E a \in Ids, b \in Ids :
        /\ StoredTrue(store, a, "call_failed")
        /\ Get(store[a].context, "call_retry_count", 0) = max_retries
        /\ StoredTrue(store, b, "call_initiated")
        /\ "call_failed" \notin DOMAIN store[b].context

\* C13: call_initiated = true comes into a stored context only through the
\* worker's persist at the end of a burst of that reminder whose last attempt got
\* a 200 response; the persist of a burst with no 200 response (other status,
\* timeout, network error, rejected destination) stores no call_initiated.
C13_InitiatedOnlyOnSuccess ==
    /\ [][\A id \in Ids :
             (StoredTrue(store', id, "call_initiated")
                 /\ ~StoredTrue(store, id, "call_initiated")) =>
                 /\ PersistStep
                 /\ Head(eligible_reminders).id = id
                 /\ call_response # None
                 /\ burst[Len(burst)] = <<"ok", attempt>>]_vars
    /\ [][(PersistStep /\ ~BurstSucceeded) =>
             ~StoredTrue(store', Head(eligible_reminders).id, "call_initiated")]_vars

\* C13 witness: a reminder is stored as called on its third attempt, the two
\* attempts before having failed, and no call_initiated came from those.
C13_Witness ==
    \E id \in Ids :
        /\ StoredTrue(store, id, "call_initiated")
        /\ Get(store[id].context, "call_retry_count", 0) = 3
        /\ Payload(Loaded(store, id)) \in api_requests
        /\ "call_failed" \notin DOMAIN store[id].context

\* a context whose dispatch keys are consistent
WellFormed(ctx) ==
    LET initiated == Get(ctx, "call_initiated", FALSE) = TRUE
        failed == Get(ctx, "call_failed", FALSE) = TRUE
    IN  /\ ~(initiated /\ failed)
        /\ "call_retry_count" \in DOMAIN ctx =>
              /\ initiated \/ failed
              /\ ctx["call_retry_count"] \in 1..max_retries
        /\ failed => Get(ctx, "call_retry_count", 0) = max_retries

\* C14: in every reachable state every stored context is well-formed:
\* call_initiated and call_failed are not both true, call_retry_count is there
\* only with one of them, is in 1..3, and is 3 when call_failed is true.
C14_StoredContextWellFormed ==
    \A id \in Ids : store[id] # NoRow => WellFormed(store[id].context)

\* C14 witness: after a shutdown request, one reminder is stored as called while
\* another one has been rescheduled by its owner and not selected since.
C14_Witness ==
    /\ shutdown_requested
    /\ \E a \in Ids, b \in rearmed :
          /\ a # b
          /\ StoredTrue(store, a, "call_initiated")
          /\ store[b] # NoRow

\* C15: worker_loop is left only through its disabled-worker return or after a
\* shutdown request: whatever failed in a tick (session, selection query, call
\* API, update_reminder), the worker has not stopped while shutdown_requested is
\* false.
C15_OnlyShutdownEndsLoop ==
    /\ pc = "stopped" => shutdown_requested
    /\ pc = "returned" => ~WORKER_ENABLED

\* C15 witness: update_reminder has raised at the end of a burst, the exception
\* is caught in process_due_reminders and no shutdown was requested.
C15_Witness ==
    /\ pc = "except"
    /\ error = "SQLAlchemyError"
    /\ ~shutdown_requested
    /\ api_requests # {}

\* C16 (as claimed): when an exception ends a tick, the wait that follows is the
\* 5-second pause, not the inter-tick sleep of WORKER_CHECK_INTERVAL seconds.
C16_FailedTickThenShortPause ==
    [][(pc = "except" /\ pc' # "except" /\ ~shutdown_requested) => pc' = "pause"]_vars

\* this step starts a tick: worker_loop calls process_due_reminders
TickStarts == Select \/ SelectFails \/ SessionLocalRaises

\* the selection query of this tick has failed
SelectionFailed == pc = "except" /\ error = "OperationalError"

\* C17: a tick whose selection query fails sends no request to the call API and
\* writes nothing to the store, and the worker goes on to its inter-tick sleep;
\* unless shutdown is requested, worker_loop later is back at its loop condition,
\* where its only step is to call process_due_reminders again, which starts with
\* the selection.
C17_FailedSelectionRetried ==
    /\ [](SelectionFailed => eligible_reminders = <<>> /\ burst = <<>>)
    /\ [][(pc = "loop" /\ SelectionFailed') =>
             store' = store /\ api_requests' = api_requests]_vars
    /\ [][(SelectionFailed /\ pc' # pc) =>
             /\ store' = store
             /\ api_requests' = api_requests
             /\ pc' \in {"sub_sleep", "loop"}]_vars
    /\ [][(pc = "loop" /\ ~shutdown_requested /\ pc' # pc) => TickStarts]_vars
    /\ SelectionFailed ~> (shutdown_requested \/ pc = "loop")

\* C17 witness: the selection query failed while a reminder was due and
\* eligible, and nothing was sent.
C17_Witness ==
    /\ SelectionFailed
    /\ Eligible(store, now) # {}
    /\ api_requests = {}
    /\ ~shutdown_requested

\* C18: with WORKER_ENABLED false the worker never gets past the start of
\* worker_loop: no selection, no request to the call API, and no stored context
\* holds a key the worker writes.
C18_DisabledWorkerDoesNothing ==
    ~WORKER_ENABLED =>
        /\ pc \in {"start", "returned"}
        /\ eligible_reminders = <<>>
        /\ api_requests = {}
        /\ \A id \in Ids :
              store[id] # NoRow => DOMAIN store[id].context \cap WorkerKeys = {}

\* C18 witness: the disabled worker has returned while a reminder is due and
\* eligible.
C18_Witness ==
    /\ ~WORKER_ENABLED
    /\ pc = "returned"
    /\ now = 1
    /\ Eligible(store, now) # {}

C20_ShutdownCutsIntervalSleep ==
    /\ [][shutdown_requested => ~(pc # "sub_sleep" /\ pc' = "sub_sleep")]_vars
    /\ [][(shutdown_requested /\ pc = "sub_sleep" /\ remaining' # remaining) =>
             pc' = "loop"]_vars
    /\ [][(shutdown_requested /\ pc = "loop" /\ pc' # pc) => pc' = "stopped"]_vars

\* C20 witness: the request arrived during a 1-second sleep and the for loop was
\* left with part of the interval not slept.
C20_Witness ==
    /\ shutdown_requested
    /\ pc = "loop"
    /\ remaining > 0

\* the place of an id in the identity order of the reminders
IdentityOrder(id) == CHOOSE n \in 1..2 : <<"r1", "r2">>[n] = id

\* the reminders of the list are in ascending due_datetime order, those with
\* equal due_datetime in identity order
Ascending(reminders) ==
    \A i, j \in 1..Len(reminders) :
        i < j =>
            \/ reminders[i].due_datetime < reminders[j].due_datetime
            \/ /\ reminders[i].due_datetime = reminders[j].due_datetime
               /\ IdentityOrder(reminders[i].id) < IdentityOrder(reminders[j].id)

\* C21 (as claimed): the candidates of a tick are in ascending due_datetime
\* order, so that of two selected reminders the one due strictly earlier has its
\* first attempt first, and candidates with equal due_datetime are in a fixed
\* order (identity order).
C21_AscendingDueOrder ==
    [][(pc = "loop" /\ pc' = "attempt") => Ascending(eligible_reminders')]_vars

\* the burst log is that of a burst that is over
BurstOver ==
    \/ AllFailedBurst
    \/ /\ burst # <<>>
       /\ burst[Len(burst)] = <<"ok", attempt>>

\* this step starts the burst of a candidate
BurstStarts == pc # "attempt" /\ pc' = "attempt" /\ burst' = <<>> /\ attempt' = 1

\* C22: one worker has at most one burst in flight: outside a burst it holds no
\* candidate and no burst log; the burst of a candidate starts only from the
\* selection or from the persist that ends the burst before it, and that persist
\* comes only when the burst is over, backoff waits included; a tick starts only
\* when no burst is in flight; and the worker writes to the store only in the
\* persist of the burst in flight, and only the row of its reminder.
C22_OneBurstAtATime ==
    /\ [](~InBurst => eligible_reminders = <<>> /\ burst = <<>>)
    /\ [](pc = "persist" => BurstOver)
    /\ [][BurstStarts => (pc = "loop" \/ (PersistStep /\ BurstOver))]_vars
    /\ [][TickStarts => (~InBurst /\ eligible_reminders = <<>> /\ burst = <<>>)]_vars
    /\ [][\A id \in Ids :
             (store'[id] # store[id] /\ owner_ops' = owner_ops) =>
                 /\ PersistStep
                 /\ BurstOver
                 /\ Head(eligible_reminders).id = id]_vars

\* C22 witness: in the first tick, on an untouched table, the second candidate
\* is in a backoff wait of its burst after the burst of the first candidate has
\* ended, with a backoff wait of its own, and has been persisted.
C22_Witness ==
    \E a \in Ids :
        /\ StoredTrue(store, a, "call_initiated")
        /\ Get(store[a].context, "call_retry_count", 0) = 2
        /\ pc = "backoff"
        /\ Head(eligible_reminders).id # a
        /\ Len(eligible_reminders) = 1
        /\ owner_ops = 0
        /\ now = 0

\* C23: with two worker processes on one store, each process gets at most one
\* 200 response per reminder, and a selection takes no reminder whose terminal
\* state is persisted at that moment; so a reminder is called twice for one due
\* time only when the second process selected it before the first one had
\* persisted its terminal state, and that state is reachable (the witness).
C23_DoubleDispatchAcrossInstances ==
    /\ [](\A w \in Instances, id \in Ids : dispatched[w][id] <= 1)
    /\ [][\A w \in Instances :
             (instances[w].pc = "loop" /\ instances'[w].pc = "attempt") =>
                 \A id \in IdsOf(instances'[w].eligible_reminders) :
                     ~IsTerminal(store[id])]_vars

\* C23 witness: each of the two processes has got a 200 response for the same
\* reminder, whose due time never changed, and its terminal state is persisted.
C23_Witness ==
    \E id \in Ids :
        /\ dispatched["w1"][id] = 1
        /\ dispatched["w2"][id] = 1
        /\ StoredTrue(store, id, "call_initiated")
        /\ store[id].due_datetime = 0
        /\ \A w \in Instances : instances[w].pc = "sleep"

\* this step is the return of initiate_outgoing_call to the burst
AttemptReturns == pc = "attempt" /\ pc' # "attempt"

CreateReturns == owner_ops' = owner_ops + 1 /\ api_call'.op = "create"

\* the time at which a reminder is due, or the current time when it already is
OnceDue(reminder, t) == IF reminder.due_datetime > t THEN reminder.due_datetime ELSE t

\* C25: every reminder that create_reminder returns is pending and its stored
\* context has none of the reserved dispatch keys, whatever context the caller
\* supplied, so that the selection made once it is due contains it
C25_CreatedPendingAndUndispatched ==
    [][CreateReturns =>
          LET db_reminder == api_call'.result[1]
              all_due == AllDue(store', OnceDue(db_reminder, now'))
          IN  /\ db_reminder.status = PENDING
              /\ DOMAIN db_reminder.context \cap ReservedKeys = {}
              /\ \A order \in Orderings(all_due) :
                    db_reminder.id \in IdsOf(get_due_reminders_for_calls(
                                              store', OnceDue(db_reminder, now'), order))]_vars

\* C26: create_reminder stores destination_mobile equal to user_mobile when the
\* caller gives no destination (the argument absent, null or empty) and the
\* caller's destination unchanged otherwise, so that the reminder it produces
\* never has a null destination_mobile
C26_DestinationDefaultsToUser ==
    [][CreateReturns =>
          LET given == GetOpt(api_call'.request, "destination_mobile")
              db_reminder == api_call'.result[1]
          IN  /\ store'[api_call'.reminder_id] = db_reminder
              /\ db_reminder.user_mobile = api_call'.request["user_mobile"][1]
              /\ db_reminder.destination_mobile =
                    (IF given = None \/ given = Some(<<>>)
                     THEN db_reminder.user_mobile
                     ELSE given[1])
              /\ db_reminder.destination_mobile # NullDestination]_vars

\* a reminder created with an empty destination is stored with the user's number
C26_Witness ==
    /\ api_call.op = "create"
    /\ GetOpt(api_call.request, "destination_mobile") = Some(<<>>)
    /\ store[api_call.reminder_id].destination_mobile = api_call.request["user_mobile"][1]

\* the last request served was a create or an update that carried a due_datetime
\* and stored a reminder
PersistedDue ==
    /\ api_call.op \in {"create", "update"}
    /\ GetOpt(api_call.request, "due_datetime") # None
    /\ api_call.result # None

\* the UTC instant of a caller's timestamp when a timestamp without a zone is read
\* in the zone `zone`
UtcInstant(dt, zone) ==
    IF dt.tz = "naive" THEN dt.wall - UtcOffset(zone) ELSE dt.wall - UtcOffset(dt.tz)

\* the zones a deployment can be configured with
LocalZones == {"Z", "+05:30"}

\* the due_datetime that is stored when the front end `front_end` serves the
\* create or update request `request`
DueStoredBy(front_end, op, request) ==
    IF op = "create"
    THEN EnsureUtc(CreateData(front_end, request)["due_datetime"][1])
    ELSE CoerceUpdates(UpdateData(front_end, request))["due_datetime"][1]

\* C27: every due_datetime that create_reminder or update_reminder persists,
\* through the HTTP API or the agent tools, is the UTC instant of the caller's
\* timestamp, a timestamp without a zone being read in the one local zone: the
\* same instant whichever front end received the request
C27_DueStoredAsUtcAlike ==
    PersistedDue =>
        /\ api_call.result[1].due_datetime =
              DueStoredBy(api_call.front_end, api_call.op, api_call.request)
        /\ \E zone \in LocalZones :
              \A front_end \in {"http", "mcp"} :
                  DueStoredBy(front_end, api_call.op, api_call.request) =
                      UtcInstant(api_call.request["due_datetime"][1], zone)

\* a delete request has just been served
DeleteReturns == owner_ops' = owner_ops + 1 /\ api_call'.op = "delete"

\* C28: delete_reminder(id, owner) returns true and removes the reminder when it
\* exists for that owner; afterwards get_reminder(id, owner) returns nothing and a
\* second delete_reminder(id, owner) returns false and removes nothing; every
\* other reminder is left unchanged
C28_DeleteRemovesOnlyThatReminder ==
    [][DeleteReturns =>
          LET id == api_call'.reminder_id
              owner == api_call'.user_mobile
          IN  /\ (store[id] # NoRow /\ store[id].user_mobile = owner)
                    => /\ api_call'.result = TRUE
                       /\ store'[id] = NoRow
                       /\ get_reminder(store', id, owner) = NoRow
                       /\ DeleteResult(store', id, owner) = FALSE
                       /\ delete_reminder(store', id, owner) = store'
              /\ \A other \in Ids \ {id} : store'[other] = store[other]]_vars

\* a reminder has been deleted by its owner while the owner has another one
C28_Witness ==
    /\ api_call.op = "delete"
    /\ api_call.result = TRUE
    /\ store[api_call.reminder_id] = NoRow
    /\ \E other \in Ids :
          /\ store[other] # NoRow
          /\ store[other].user_mobile = api_call.user_mobile

\* the reminder is in the list that get_reminders_by_user returns for its owner
\* with the default limit and no status filter, whatever the order of equal due
\* times
Listed(db, id) ==
    \A order \in DueDescending(db, db[id].user_mobile, None) :
        LET reminders == get_reminders_by_user(db, db[id].user_mobile, None,
                                               DefaultLimit, order)
        IN  \E i \in 1..Len(reminders) : reminders[i] = db[id]

\* an update or delete request of its owner for the reminder has just been served
UpdatedOrDeleted(id) ==
    /\ owner_ops' = owner_ops + 1
    /\ api_call'.op \in {"update", "delete"}
    /\ api_call'.reminder_id = id
    /\ api_call'.user_mobile = store[id].user_mobile

\* the reminder that create_reminder returns is stored, get_reminder returns it for
\* its id and owner, and it has the title, due_datetime (as UTC), priority,
\* destination and context given at creation
StoredAsGiven ==
    CreateReturns =>
        LET given == api_call'.data
            db_reminder == api_call'.result[1]
        IN  /\ db_reminder.id = api_call'.reminder_id
            /\ get_reminder(store', db_reminder.id, given["user_mobile"][1]) = db_reminder
            /\ db_reminder.title = given["title"][1]
            /\ db_reminder.due_datetime = UtcInstant(given["due_datetime"][1], "Z")
            /\ db_reminder.priority.value = given["priority"][1]
            /\ ~Falsy(given["destination_mobile"])
                  => db_reminder.destination_mobile = given["destination_mobile"][1]
            /\ db_reminder.context = given["context"][1]

\* a stored reminder stays as it is, for get_reminder, through every step that is
\* not an update or a delete of it
KeptUntilUpdatedOrDeleted ==
    \A id \in Ids :
        (store[id] # NoRow /\ ~UpdatedOrDeleted(id))
            => /\ store'[id] = store[id]
               /\ get_reminder(store', id, store[id].user_mobile) = store[id]

AmongLatest(db, id, limit) ==
    Cardinality({other \in UserReminders(db, db[id].user_mobile, None) \ {id} :
                    db[other].due_datetime >= db[id].due_datetime}) < limit

UpdateReturns ==
    /\ owner_ops' = owner_ops + 1
    /\ api_call'.op = "update"
    /\ api_call'.result # None

\* the update supplies the field with a value that is not null
Supplied(updates, field) == field \in DOMAIN updates /\ updates[field] # None

\* the value a field holds once it is set to the value supplied for it: the enum
\* member for a priority, the UTC instant for a due_datetime
SuppliedValue(updates, field) ==
    IF field = "priority"
    THEN PriorityMember(updates[field][1])
    ELSE IF field = "due_datetime"
         THEN UtcInstant(updates[field][1], "Z")
         ELSE updates[field][1]

\* the fields of a reminder other than the time of its last update, which the
\* store maintains
CallerFields(reminder) == DOMAIN reminder \ {"updated_at"}

Reschedules(old, updates, t) ==
    /\ Supplied(updates, "due_datetime")
    /\ SuppliedValue(updates, "due_datetime") > t
    /\ SuppliedValue(updates, "due_datetime") # old.due_datetime

ExactlyDue(db, user_mobile, t) ==
    \A order \in DueAscending(db, user_mobile, t) :
        LET reminders == get_due_reminders(db, user_mobile, t, order)
        IN  /\ \A i \in 1..Len(reminders) :
                  /\ reminders[i].user_mobile = user_mobile
                  /\ reminders[i].status = "pending"
                  /\ reminders[i].due_datetime <= t
            /\ \A id \in Ids :
                  (/\ db[id] # NoRow
                   /\ db[id].user_mobile = user_mobile
                   /\ db[id].status = "pending"
                   /\ db[id].due_datetime <= t)
                     => \E i \in 1..Len(reminders) : reminders[i] = db[id]
            /\ \A i, j \in 1..Len(reminders) :
                  /\ i < j => reminders[i].due_datetime <= reminders[j].due_datetime
                  /\ reminders[i].id = reminders[j].id => i = j

\* get_due_reminders can return the reminder, for some user, at time t
ReturnedAsDue(db, id, t) ==
    \E user_mobile \in Users :
        \E order \in DueAscending(db, user_mobile, t) :
            LET reminders == get_due_reminders(db, user_mobile, t, order)
            IN  \E i \in 1..Len(reminders) : reminders[i].id = id

\* the update that has just been served moved due_datetime after the current time
\* or set the status to completed
MovedAheadOrCompleted ==
    /\ UpdateReturns
    /\ \/ /\ Supplied(api_call'.data, "due_datetime")
          /\ SuppliedValue(api_call'.data, "due_datetime") > now'
       \/ /\ Supplied(api_call'.data, "status")
          /\ api_call'.data["status"] = Some("completed")

\* C31: get_due_reminders(owner) returns exactly that owner's reminders with
\* status pending and due_datetime <= now, in ascending due_datetime order, and
\* does not return a reminder whose due_datetime has just been updated to the
\* future or whose status has just been updated to completed
C31_DueRemindersExact ==
    [][/\ \A user_mobile \in Users :
             /\ ExactlyDue(store, user_mobile, now)
             /\ ExactlyDue(store', user_mobile, now')
       /\ MovedAheadOrCompleted => ~ReturnedAsDue(store', api_call'.reminder_id, now')]_vars

\* a due reminder has been set to completed and is no longer returned, while
\* another reminder of the same owner, as due, is
C31_Witness ==
    /\ api_call.op = "update"
    /\ api_call.result # None
    /\ api_call.data = [status |-> Some("completed")]
    /\ store[api_call.reminder_id].due_datetime <= now
    /\ ~ReturnedAsDue(store, api_call.reminder_id, now)
    /\ \E other \in Ids :
          /\ store[other] # NoRow
          /\ store[other].user_mobile = api_call.user_mobile
          /\ ReturnedAsDue(store, other, now)

\* the id is unknown, or the reminder belongs to another user than the caller
NotFound(db, reminder_id, user_mobile) ==
    db[reminder_id] = NoRow \/ db[reminder_id].user_mobile # user_mobile

\* an update or delete request has just been served
UpdateOrDeleteReturns ==
    owner_ops' = owner_ops + 1 /\ api_call'.op \in {"update", "delete"}

\* C32: get_reminder, update_reminder and delete_reminder called with an unknown
\* id, or with a user_mobile that is not the reminder's owner, report not-found
\* (None, None and False) and leave every stored reminder unchanged; a request of
\* one user never returns nor changes the reminder of another
C32_NotFoundForOthers ==
    [][/\ \A id \in Ids, user_mobile \in Users :
             NotFound(store', id, user_mobile)
                => /\ get_reminder(store', id, user_mobile) = NoRow
                   /\ UpdateResult(store', id, user_mobile, [title |-> Some("t2")], now') = None
                   /\ DeleteResult(store', id, user_mobile) = FALSE
       /\ (UpdateOrDeleteReturns
             /\ NotFound(store, api_call'.reminder_id, api_call'.user_mobile))
             => /\ api_call'.result = (IF api_call'.op = "update" THEN None ELSE FALSE)
                /\ store' = store
       /\ owner_ops' = owner_ops + 1
             => /\ \A id \in Ids :
                      (store[id] # NoRow /\ store[id].user_mobile # api_call'.user_mobile)
                         => store'[id] = store[id]
                /\ (api_call'.op \in {"create", "update"} /\ api_call'.result # None)
                      => api_call'.result[1].user_mobile = api_call'.user_mobile]_vars

\* an update request for the reminder of another user has reported not-found
C32_Witness ==
    /\ api_call.op = "update"
    /\ api_call.result = None
    /\ store[api_call.reminder_id] # NoRow
    /\ store[api_call.reminder_id].user_mobile # api_call.user_mobile

\* the worker is enabled and not cancelled, and no call on the store has failed
OnAndAvailable ==
    /\ WORKER_ENABLED
    /\ ~shutdown_requested
    /\ pc # "pause"
    /\ ~(pc = "except" /\ error \in {"OperationalError", "SQLAlchemyError"})

\* C33: while the worker is enabled and never cancelled, the store stays available
\* and every request to the call API returns, every reminder that is pending, due,
\* has a destination and is not dispatch-terminal eventually reaches a terminal
\* dispatch state (call_initiated or call_failed is true), unless its owner
\* modifies or deletes it: only a request of the owner takes it out of the
\* selection without making it terminal
C33_EligibleEventuallyTerminal ==
    /\ [][\A id \in Ids :
             (id \in Eligible(store, now) /\ id \notin Eligible(store', now'))
                => \/ IsTerminal(store'[id])
                   \/ owner_ops' = owner_ops + 1]_vars
    /\ \A id \in Ids :
          []OnAndAvailable
             => ((id \in Eligible(store, now))
                    ~> (IsTerminal(store[id]) \/ id \notin Eligible(store, now)))

\* the worker, never cancelled and with the store available, has brought both
\* reminders to a terminal state, with no request of the owner
C33_Witness ==
    /\ WORKER_ENABLED
    /\ ~shutdown_requested
    /\ owner_ops = 0
    /\ \A id \in Ids : IsTerminal(store[id])
    /\ \E id \in Ids : Get(store[id].context, "call_failed", FALSE)
    /\ \E id \in Ids : Get(store[id].context, "call_initiated", FALSE)

\* worker_loop has returned
LoopReturned == pc \in {"stopped", "returned"}

\* the attempts the burst in progress has made
AttemptsMade == {i \in 1..Len(burst) : burst[i][1] # "sleep"}

\* C34: once shutdown has been requested, worker_loop eventually returns, every
\* request to the call API returning: the tick in progress makes at most 3
\* attempts for each of its candidates, of which there are no more than there are
\* reminders, no other tick starts, and the loop exits
C34_ShutdownEventuallyReturns ==
    /\ shutdown_requested ~> LoopReturned
    /\ [](shutdown_requested
             => /\ Cardinality(AttemptsMade) <= max_retries
                /\ attempt <= max_retries
                /\ Len(eligible_reminders) <= Cardinality(Ids))
    /\ [][(shutdown_requested /\ pc = "loop" /\ pc' # pc) => pc' = "stopped"]_vars
    /\ [][(shutdown_requested /\ LoopReturned) => pc' = pc]_vars

\* shutdown has been requested and the tick in progress has made its third
\* attempt for a candidate that is not its last
C34_Witness ==
    /\ shutdown_requested
    /\ pc = "persist"
    /\ Cardinality(AttemptsMade) = max_retries
    /\ Len(eligible_reminders) = 2

\* this step takes the worker into the burst of a candidate
BurstEntered == pc' = "attempt" /\ pc \notin {"attempt", "backoff"}

EditedUnderBurst ==
    /\ InBurst
    /\ LET reminder == Head(eligible_reminders)
       IN  /\ store[reminder.id] # NoRow
           /\ \/ store[reminder.id].status # PENDING
              \/ store[reminder.id].destination_mobile # reminder.destination_mobile

\* C36: a burst works on the reminder as read at selection: an owner request
\* leaves the worker's copy and its position as they are; when the stored
\* reminder has been completed, cancelled or redirected under the burst, each step
\* of the burst is the one it would otherwise be (an attempt, a backoff wait to the
\* next attempt, no end before success or the third failure), a request goes to
\* the destination of the copy, and the persist writes the burst's context
C36_BurstWorksOnSnapshot ==
    /\ [][(owner_ops' # owner_ops)
             => /\ eligible_reminders' = eligible_reminders
                /\ context' = context
                /\ <<pc', attempt', burst'>> = <<pc, attempt, burst>>]_vars
    /\ [][(EditedUnderBurst /\ pc = "backoff" /\ pc' # pc)
             => /\ pc' = "attempt"
                /\ attempt' = attempt + 1
                /\ eligible_reminders' = eligible_reminders]_vars
    /\ [][(EditedUnderBurst /\ pc = "attempt" /\ <<pc, burst>>' # <<pc, burst>>)
             => /\ Len(burst') = Len(burst) + 1
                /\ burst'[Len(burst')][2] = attempt
                /\ eligible_reminders' = eligible_reminders
                /\ pc' = IF call_response' = None /\ attempt < max_retries
                         THEN "backoff"
                         ELSE "persist"
                /\ api_requests' \subseteq
                      api_requests \cup {Payload(Head(eligible_reminders))}]_vars
    /\ [][(EditedUnderBurst /\ pc = "persist" /\ pc' # pc /\ error' = "")
             => store'[Head(eligible_reminders).id].context = context]_vars

\* the owner has cancelled the reminder under its burst, which has gone on to its
\* third attempt and had the call accepted: the outcome is about to be persisted
C36_Witness ==
    /\ EditedUnderBurst
    /\ pc = "persist"
    /\ call_response # None
    /\ attempt = max_retries
    /\ store[Head(eligible_reminders).id].status = CANCELLED
    /\ Payload(Head(eligible_reminders)) \in api_requests


\* C37: a shutdown request that arrives during a tick changes nothing of the
\* tick: with the flag set, a backoff wait still leads to the next attempt, an
\* attempt still ends in a backoff wait, or after success or the third failure in
\* the persist, a persist that raises nothing still starts the burst of the next
\* candidate, at attempt 1, and worker_loop returns only from its loop condition,
\* where no candidate is left
C37_ShutdownNotObservedInTick ==
    /\ [][(shutdown_requested /\ pc = "backoff" /\ pc' # pc)
             => /\ pc' = "attempt"
                /\ attempt' = attempt + 1
                /\ Len(burst') = Len(burst) + 1
                /\ eligible_reminders' = eligible_reminders]_vars
    /\ [][(shutdown_requested /\ pc = "attempt" /\ pc' # pc)
             => /\ pc' = IF call_response' = None /\ attempt < max_retries
                         THEN "backoff"
                         ELSE "persist"
                /\ eligible_reminders' = eligible_reminders]_vars
    /\ [][(shutdown_requested /\ pc = "persist" /\ pc' \notin {"persist", "except"}
              /\ Tail(eligible_reminders) # <<>>)
             => /\ pc' = "attempt"
                /\ attempt' = 1
                /\ burst' = <<>>
                /\ IdsOf(eligible_reminders') = IdsOf(Tail(eligible_reminders))]_vars
    /\ [][(pc' = "stopped" /\ pc # "stopped")
             => pc = "loop" /\ eligible_reminders = <<>>]_vars
    /\ [](InBurst => pc # "stopped" /\ eligible_reminders # <<>>)

\* the flag was set during the burst of the first of two candidates, which has
\* gone on to its third attempt; the burst of the second is still to start
C37_Witness ==
    /\ shutdown_requested
    /\ pc = "persist"
    /\ attempt = max_retries
    /\ Cardinality(AttemptsMade) = max_retries
    /\ Len(eligible_reminders) = 2


\* the persist of a burst's outcome has raised a store error
PersistRaised == pc = "except" /\ error = "SQLAlchemyError"

\* the worker is in the burst of a tick whose candidates include the reminder
SelectedAgain(id) == pc = "attempt" /\ id \in IdsOf(eligible_reminders)

\* the worker has been cancelled, or a later tick has failed before or in its
\* selection
NoLaterSelection == shutdown_requested \/ pc = "pause" \/ (pc = "except" /\ error = "OperationalError")

\* C38: a persist that raises a store error writes nothing and ends the tick:
\* the reminder of the burst and the candidates after it are as eligible as they
\* were and no request is sent for them; the error is handled inside
\* process_due_reminders, so that worker_loop goes to its inter-tick sleep and not
\* to its own handler's pause; and every reminder eligible then is a candidate of
\* a later tick, unless by then it is no longer eligible, the worker has been
\* cancelled or that tick's selection has failed
C38_PersistErrorAbandonsTick ==
    /\ [][(pc = "persist" /\ PersistRaised')
             => /\ store' = store
                /\ api_requests' = api_requests
                /\ eligible_reminders' = <<>>
                /\ \A id \in IdsOf(eligible_reminders) :
                      id \in Eligible(store, now) => id \in Eligible(store', now')]_vars
    /\ [][(PersistRaised /\ pc' # pc)
             => /\ pc' \in {"sub_sleep", "loop"}
                /\ api_requests' = api_requests
                /\ eligible_reminders' = <<>>]_vars
    /\ \A id \in Ids :
          (PersistRaised /\ id \in Eligible(store, now))
             ~> (SelectedAgain(id) \/ id \notin Eligible(store, now) \/ NoLaterSelection)

\* a later tick has both reminders as candidates again, a request having gone out
\* in a burst whose outcome could not be persisted: no reminder is terminal and
\* the owner has made no request
C38_Witness ==
    /\ pc = "attempt"
    /\ attempt = 1
    /\ burst = <<>>
    /\ Len(eligible_reminders) = 2
    /\ api_requests # {}
    /\ owner_ops = 0
    /\ \A id \in Ids : ~IsTerminal(store[id])


\* C39: an update that supplies no context and does not move due_datetime to an
\* instant that is later than the current time and differs from the previous one
\* leaves the stored context as it is, and with it whether the reminder is
\* dispatch-terminal
C39_OtherUpdatesKeepContext ==
    [][UpdateReturns =>
          LET updates == api_call'.data
              old == store[api_call'.reminder_id]
              new == store'[api_call'.reminder_id]
          IN  (~Supplied(updates, "context") /\ ~Reschedules(old, updates, now))
                 => /\ new.context = old.context
                    /\ IsTerminal(new) = IsTerminal(old)]_vars

\* a reminder whose call was initiated has been moved to another due_datetime,
\* one that is not later than the time of the request: it is still terminal
C39_Witness ==
    /\ api_call.op = "update"
    /\ api_call.result # None
    /\ Supplied(api_call.data, "due_datetime")
    /\ SuppliedValue(api_call.data, "due_datetime") <= now
    /\ store[api_call.reminder_id].due_datetime # 1
    /\ Get(store[api_call.reminder_id].context, "call_initiated", FALSE)
    /\ IsTerminal(store[api_call.reminder_id])


\* the HTTP update endpoint has just served a request for a reminder that does not
\* exist for the given user_mobile
HttpUpdateOfMissing ==
    /\ owner_ops' = owner_ops + 1
    /\ api_call'.op = "update"
    /\ api_call'.front_end = "http"
    /\ get_reminder(store, api_call'.reminder_id, api_call'.user_mobile) = NoRow

\* C40: PUT /reminders/{reminder_id} for a reminder that does not exist for the
\* given user_mobile answers 404 "Reminder not found", which is what GET and
\* DELETE answer for that reminder and user_mobile, and leaves the store as it is
C40_UpdateOfMissingAnswers404 ==
    [][HttpUpdateOfMissing =>
          /\ api_call'.response.status_code = 404
          /\ api_call'.response.detail = <<"Reminder not found">>
          /\ api_call'.response =
                http_get_reminder(store, api_call'.reminder_id, api_call'.user_mobile)
          /\ api_call'.response =
                http_delete_reminder(store, api_call'.reminder_id, api_call'.user_mobile)
          /\ store' = store]_vars

====
